---- MODULE Spec2Model ----
(***************************************************************************)
(* The planning pipeline of chem-cli: ResearchPlanner classifies a request *)
(* and recommends a theory level, ExecutionPlanner scores and ranks the    *)
(* four software packages and builds the execution plan, and              *)
(* PrecisionCalculator offers the three precision tiers with the estimates *)
(* of TimeEstimator and AccuracyEstimator; ChemCLI reads the user's choice *)
(* of a tier.                                                              *)
(*                                                                         *)
(* JavaScript strings are TLA+ strings (Len, SubSeq and \o act on them),   *)
(* null is the value Null, an object is a record, an array a sequence.     *)
(***************************************************************************)
EXTENDS Integers, Sequences, FiniteSets, TLC

VARIABLES
    pc,               \* where the client (processCalculationRequest) stands
    userRequest,      \* the request text handed to analyze
    moleculeInfo,     \* the molecule handed to analyze and plan
    researchResult,   \* what analyze returned
    executionResult,  \* what plan returned
    theoryCalls,      \* the last two recommendTheoryLevel calls, oldest first
    softwareOptions,  \* the ranking rankSoftware returned last (plan's local)
    precisionOptions, \* what calculatePrecisionOptions returned last
    precisionCall,    \* the arguments of a client's calculatePrecisionOptions call
    firstOptions,     \* what the first of two equal calls returned
    recommendation,   \* what getOverallRecommendation returned last
    timeCall,         \* a TimeEstimator call: its params and result
    accuracyCall,     \* an AccuracyEstimator.estimate call: params, local, result
    cliPc,            \* where ChemCLI stands: prompt, typed or handled
    cliInput,         \* the line the user typed
    awaitingPrecisionChoice,  \* ChemCLI's field of that name
    currentPlanData,          \* ChemCLI's field of that name
    conversationHistory,      \* ChemCLI's field of that name, by roles
    selectedLevel,    \* the tier handlePrecisionChoice read from the line
    routed            \* the handler the line went to

\* The locals of the planning client, pc apart.
plannerData == <<userRequest, moleculeInfo, researchResult, executionResult,
                 theoryCalls, softwareOptions>>

precisionVars == <<precisionOptions, precisionCall, firstOptions, recommendation>>

estimatorVars == <<timeCall, accuracyCall>>

cliVars == <<cliPc, cliInput, awaitingPrecisionChoice, currentPlanData,
             conversationHistory, selectedLevel, routed>>

vars == <<pc, plannerData, precisionVars, estimatorVars, cliVars>>

\* ------------------------------------------------------------------ bounds

\* Longest request, in words of Vocabulary.
MaxWords == 2

\* Molecule sizes 0..MaxSmallSize are all tried, next to the thresholds.
MaxSmallSize == 3

\* ChemCLI reads lines while its history is shorter than this.
MaxHistory == 4

\* ----------------------------------------------------------------- values

\* JavaScript null where a string is expected.
Null == "null"

\* A variable that holds no object yet.
Undefined == [kind |-> "undefined"]

Range(s) == {s[i] : i \in 1..Len(s)}

\* ------------------------------------------------------- string primitives

UpperLetters == "ABCDEFGHIJKLMNOPQRSTUVWXYZ"
LowerLetters == "abcdefghijklmnopqrstuvwxyz"

\* One character of String.prototype.toLowerCase.
LowerChar(c) ==
    IF \E i \in 1..Len(UpperLetters) : SubSeq(UpperLetters, i, i) = c
    THEN LET i == CHOOSE j \in 1..Len(UpperLetters) : SubSeq(UpperLetters, j, j) = c
         IN  SubSeq(LowerLetters, i, i)
    ELSE c

RECURSIVE toLowerCase(_)
toLowerCase(s) ==
    IF Len(s) = 0 THEN ""
    ELSE LowerChar(SubSeq(s, 1, 1)) \o toLowerCase(SubSeq(s, 2, Len(s)))

\* String.prototype.includes: k occurs in s as a substring.
includes(s, k) ==
    \E i \in 1..(Len(s) - Len(k) + 1) : SubSeq(s, i, i + Len(k) - 1) = k

\* Array.prototype.includes.
arrayIncludes(a, x) == \E i \in 1..Len(a) : a[i] = x

\* (molecule.match(/[CNOFPS]/gi) || []).length
HeavyAtomLetters == {"C", "N", "O", "F", "P", "S", "c", "n", "o", "f", "p", "s"}

countHeavyAtoms(s) ==
    Cardinality({i \in 1..Len(s) : SubSeq(s, i, i) \in HeavyAtomLetters})

\* --------------------------------------------------------- ResearchPlanner

\* Object.keys(this.calculationTypes), in insertion order.
calculationTypeNames ==
    << "absorption_spectrum", "emission_spectrum", "geometry_optimization",
       "frequency_analysis", "homo_lumo", "nmr_prediction", "reaction_energy" >>

calculationTypes ==
    [ absorption_spectrum |->
        [ name     |-> "UV-Vis Absorption Spectrum",
          methods  |-> << "TD-DFT", "CIS", "EOM-CCSD" >>,
          keywords |-> << "absorption", "uv-vis", "spectrum", "excitation",
                          "electronic transition" >> ],
      emission_spectrum |->
        [ name     |-> "Fluorescence/Phosphorescence Spectrum",
          methods  |-> << "TD-DFT", "excited_state_optimization" >>,
          keywords |-> << "emission", "fluorescence", "phosphorescence",
                          "excited state" >> ],
      geometry_optimization |->
        [ name     |-> "Molecular Geometry Optimization",
          methods  |-> << "DFT", "HF", "MP2", "xTB" >>,
          keywords |-> << "optimize", "geometry", "structure", "minimum",
                          "equilibrium" >> ],
      frequency_analysis |->
        [ name     |-> "Vibrational Frequency Analysis",
          methods  |-> << "DFT", "HF", "xTB" >>,
          keywords |-> << "frequency", "vibration", "ir", "infrared",
                          "spectrum" >> ],
      homo_lumo |->
        [ name     |-> "HOMO-LUMO Gap Analysis",
          methods  |-> << "DFT", "HF" >>,
          keywords |-> << "homo", "lumo", "gap", "frontier", "orbital",
                          "energy" >> ],
      nmr_prediction |->
        [ name     |-> "NMR Chemical Shift Prediction",
          methods  |-> << "DFT_NMR", "GIAO" >>,
          keywords |-> << "nmr", "chemical shift", "1h", "13c", "proton",
                          "carbon" >> ],
      reaction_energy |->
        [ name     |-> "Reaction Energy Calculation",
          methods  |-> << "DFT", "composite_methods" >>,
          keywords |-> << "reaction", "energy", "barrier", "transition",
                          "state", "thermodynamics" >> ] ]

CalculationTypeSet == Range(calculationTypeNames)

\* this.functionalRecommendations[calculationType] || 'B3LYP'
functionalRecommendations(calculationType) ==
    CASE calculationType = "general"             -> "B3LYP"
      [] calculationType = "absorption_spectrum" -> "CAM-B3LYP"
      [] calculationType = "emission_spectrum"   -> "CAM-B3LYP"
      [] calculationType = "reaction_energy"     -> "M06-2X"
      [] calculationType = "nmr_prediction"      -> "B3LYP"
      [] calculationType = "homo_lumo"           -> "B3LYP"
      [] OTHER                                   -> "B3LYP"

\* The inner loop of identifyCalculationType: does keyword k, k+1, ... of the
\* list occur in the request?
RECURSIVE anyKeywordFrom(_, _, _)
anyKeywordFrom(request, keywords, k) ==
    IF k > Len(keywords) THEN FALSE
    ELSE IF includes(request, keywords[k]) THEN TRUE
    ELSE anyKeywordFrom(request, keywords, k + 1)

\* A faulty outer loop: the last matching type wins, not the first.
RECURSIVE identifyLast(_, _)
identifyLast(request, i) ==
    IF i > Len(calculationTypeNames) THEN Null
    ELSE LET later == identifyLast(request, i + 1)
         IN  IF later # Null THEN later
             ELSE IF anyKeywordFrom(request, calculationTypes[calculationTypeNames[i]].keywords, 1)
                  THEN calculationTypeNames[i]
             ELSE Null

\* The outer loop, from the i-th type on.
RECURSIVE identifyFrom(_, _)
identifyFrom(request, i) ==
    IF i > Len(calculationTypeNames) THEN Null
    ELSE IF anyKeywordFrom(request, calculationTypes[calculationTypeNames[i]].keywords, 1)
         THEN calculationTypeNames[i]
    ELSE identifyFrom(request, i + 1)

identifyCalculationType(request) == identifyFrom(request, 1)

\* A molecule argument is null, a string (SMILES or a name) or a MoleculeInfo
\* record; estimatedSize 0 stands for a record whose estimatedSize is 0 or
\* missing (both are falsy where the code tests the field).
NoMolecule == [kind |-> "null"]
MoleculeString(text) == [kind |-> "string", text |-> text]
MoleculeRecord(name, smiles, size) ==
    [kind |-> "record", name |-> name, smiles |-> smiles, estimatedSize |-> size]

\* A faulty size estimate: a record is sized by the atoms of its SMILES.
estimateMolecularSizeOfSmiles(molecule) ==
    IF molecule.kind = "string" THEN countHeavyAtoms(molecule.text)
    ELSE IF molecule.kind = "record" THEN countHeavyAtoms(molecule.smiles)
    ELSE 10

estimateMolecularSize(molecule) ==
    IF molecule.kind = "string" THEN countHeavyAtoms(molecule.text) ELSE 10

\* Thrown marks a TypeError raised by the call (a property read of undefined).
Thrown == [threw |-> TRUE]

recommendTheoryLevel(calculationType, molecule) ==
    IF calculationType \notin DOMAIN calculationTypes THEN Thrown
    ELSE
    LET calcInfo == calculationTypes[calculationType]
        preferredFunctional == functionalRecommendations(calculationType)
        basisSet ==
            IF molecule.kind = "null" THEN "def2-SVP"
            ELSE LET estimatedSize == estimateMolecularSize(molecule)
                 IN  IF estimatedSize > 50 THEN "def2-SVP"
                     ELSE IF estimatedSize > 20 THEN "def2-TZVP"
                     ELSE "def2-QZVP"
    IN  [ functional      |-> preferredFunctional,
          basisSet        |-> basisSet,
          methods         |-> calcInfo.methods,
          preferredMethod |-> calcInfo.methods[1] ]

\* A faulty suggestion list: slice(0, 3) taken of the types, not the keywords.
suggestFirstThree ==
    [ i \in 1..3 |->
        LET type == calculationTypeNames[i]
        IN  [ type     |-> type,
              name     |-> calculationTypes[type].name,
              keywords |-> calculationTypes[type].keywords ] ]

\* One entry per type; keywords.slice(0, 3)
suggestCalculationTypes ==
    [ i \in 1..Len(calculationTypeNames) |->
        LET type == calculationTypeNames[i]
        IN  [ type     |-> type,
              name     |-> calculationTypes[type].name,
              keywords |-> SubSeq(calculationTypes[type].keywords, 1, 3) ] ]

\* The fields of the plan the later stages read; the prose fields are left out.
generateResearchPlan(calculationType, theoryLevel, molecule, originalRequest) ==
    LET calcInfo == calculationTypes[calculationType]
    IN  [ title           |-> calcInfo.name,
          objective       |-> originalRequest,
          calculationType |-> calculationType,
          functional      |-> theoryLevel.functional,
          basisSet        |-> theoryLevel.basisSet,
          alternativeMethods |-> SubSeq(calcInfo.methods, 2, Len(calcInfo.methods)) ]

analyze(request0, molecule) ==
    LET request == toLowerCase(request0)
        calculationType == identifyCalculationType(request)
    IN  IF calculationType = Null
        THEN [ success     |-> FALSE,
               error       |-> "Could not determine calculation type from request",
               suggestions |-> suggestCalculationTypes ]
        ELSE LET theoryLevel == recommendTheoryLevel(calculationType, molecule)
             IN  [ success         |-> TRUE,
                   calculationType |-> calculationType,
                   theoryLevel     |-> theoryLevel,
                   researchPlan    |-> generateResearchPlan(calculationType, theoryLevel,
                                                            molecule, request) ]

\* -------------------------------------------------------- ExecutionPlanner

\* Object.keys(this.softwareCapabilities), in insertion order.
softwareNames == << "psi4", "orca", "xtb", "pyscf" >>

SoftwareSet == Range(softwareNames)

Support(supported, recommended, performance) ==
    [supported |-> supported, recommended |-> recommended, performance |-> performance]

softwareCapabilities ==
    [ psi4 |->
        [ name      |-> "Psi4",
          type      |-> "open_source",
          license   |-> "LGPL",
          strengths |-> << "TD-DFT", "coupled_cluster", "MP2", "DFT" >>,
          calculationTypes |->
            [ absorption_spectrum   |-> Support(TRUE, TRUE, "good"),
              emission_spectrum     |-> Support(TRUE, TRUE, "good"),
              geometry_optimization |-> Support(TRUE, TRUE, "excellent"),
              frequency_analysis    |-> Support(TRUE, TRUE, "good"),
              homo_lumo             |-> Support(TRUE, TRUE, "excellent"),
              nmr_prediction        |-> Support(TRUE, FALSE, "fair"),
              reaction_energy       |-> Support(TRUE, TRUE, "good") ],
          maxAtoms        |-> 100,
          parallelization |-> TRUE,
          memoryEfficient |-> TRUE,
          installCommand  |-> "conda install -c conda-forge psi4" ],
      orca |->
        [ name      |-> "ORCA",
          type      |-> "free_academic",
          license   |-> "Academic use only",
          strengths |-> << "TD-DFT", "coupled_cluster", "multireference", "large_basis_sets" >>,
          calculationTypes |->
            [ absorption_spectrum   |-> Support(TRUE, TRUE, "excellent"),
              emission_spectrum     |-> Support(TRUE, TRUE, "excellent"),
              geometry_optimization |-> Support(TRUE, TRUE, "excellent"),
              frequency_analysis    |-> Support(TRUE, TRUE, "excellent"),
              homo_lumo             |-> Support(TRUE, TRUE, "excellent"),
              nmr_prediction        |-> Support(TRUE, TRUE, "excellent"),
              reaction_energy       |-> Support(TRUE, TRUE, "excellent") ],
          maxAtoms        |-> 500,
          parallelization |-> TRUE,
          memoryEfficient |-> TRUE,
          installCommand  |-> "Manual download from ORCA forum required" ],
      xtb |->
        [ name      |-> "xTB",
          type      |-> "open_source",
          license   |-> "LGPL",
          strengths |-> << "very_fast", "large_molecules", "conformer_search" >>,
          calculationTypes |->
            [ absorption_spectrum   |-> Support(FALSE, FALSE, "poor"),
              emission_spectrum     |-> Support(FALSE, FALSE, "poor"),
              geometry_optimization |-> Support(TRUE, TRUE, "excellent"),
              frequency_analysis    |-> Support(TRUE, TRUE, "good"),
              homo_lumo             |-> Support(TRUE, TRUE, "good"),
              nmr_prediction        |-> Support(FALSE, FALSE, "poor"),
              reaction_energy       |-> Support(TRUE, FALSE, "fair") ],
          maxAtoms        |-> 10000,
          parallelization |-> TRUE,
          memoryEfficient |-> TRUE,
          installCommand  |-> "conda install -c conda-forge xtb" ],
      pyscf |->
        [ name      |-> "PySCF",
          type      |-> "open_source",
          license   |-> "Apache 2.0",
          strengths |-> << "python_integration", "customizable", "TD-DFT" >>,
          calculationTypes |->
            [ absorption_spectrum   |-> Support(TRUE, TRUE, "good"),
              emission_spectrum     |-> Support(TRUE, FALSE, "fair"),
              geometry_optimization |-> Support(TRUE, FALSE, "fair"),
              frequency_analysis    |-> Support(FALSE, FALSE, "poor"),
              homo_lumo             |-> Support(TRUE, TRUE, "excellent"),
              nmr_prediction        |-> Support(TRUE, FALSE, "fair"),
              reaction_energy       |-> Support(TRUE, FALSE, "fair") ],
          maxAtoms        |-> 200,
          parallelization |-> TRUE,
          memoryEfficient |-> FALSE,
          installCommand  |-> "conda install -c conda-forge pyscf" ] ]

\* const performanceScores = {...}; performanceScores[p] || 0
performanceScores(performance) ==
    CASE performance = "excellent" -> 25
      [] performance = "good"      -> 20
      [] performance = "fair"      -> 10
      [] performance = "poor"      -> 0
      [] OTHER                     -> 0

\* molecule && molecule.estimatedSize: the size when it is truthy, else 0.
truthySize(molecule) ==
    IF molecule.kind = "record" THEN molecule.estimatedSize ELSE 0

\* The details object; a field the code leaves unset reads as FALSE (Null for
\* performance), which is how every reader of details treats undefined.
NoDetails ==
    [ supported |-> FALSE, performance |-> Null, methodMatch |-> FALSE,
      sizeCompatible |-> FALSE, openSource |-> FALSE, easyInstall |-> FALSE ]

\* A faulty support test: the entry exists, its supported flag is not read.
isSupportedAny(software, calculationType) ==
    calculationType \in DOMAIN software.calculationTypes

\* calcSupport && calcSupport.supported
isSupported(software, calculationType) ==
    /\ calculationType \in DOMAIN software.calculationTypes
    /\ software.calculationTypes[calculationType].supported

\* A faulty size term: size < maxAtoms, so a molecule at the ceiling is penalised.
sizeScoreStrict(software, molecule) ==
    LET size == truthySize(molecule)
    IN  IF size = 0 THEN 0
        ELSE IF size < software.maxAtoms
             THEN 15 + (IF size > 50 /\ software.memoryEfficient THEN 10 ELSE 0)
             ELSE 0 - 20

\* A faulty size term: a penalty so large that it excludes the software.
sizeScoreExcluding(software, molecule) ==
    LET size == truthySize(molecule)
    IN  IF size = 0 THEN 0
        ELSE IF size <= software.maxAtoms
             THEN 15 + (IF size > 50 /\ software.memoryEfficient THEN 10 ELSE 0)
             ELSE 0 - 200

\* "Molecule size consideration": nothing when the size is falsy.
sizeScore(software, molecule) ==
    LET size == truthySize(molecule)
    IN  IF size = 0 THEN 0
        ELSE IF size <= software.maxAtoms
             THEN 15 + (IF size > 50 /\ software.memoryEfficient THEN 10 ELSE 0)
             ELSE 0 - 20

calculateSoftwareScore(software, calculationType, theoryLevel, molecule) ==
    IF ~isSupported(software, calculationType)
    THEN [total |-> 0, details |-> NoDetails]
    ELSE
    LET calcSupport == software.calculationTypes[calculationType]
        recommendedScore == IF calcSupport.recommended THEN 30 ELSE 10
        methodMatch ==
            \/ arrayIncludes(software.strengths, theoryLevel.preferredMethod)
            \/ arrayIncludes(software.strengths, calculationType)
        size == truthySize(molecule)
        openSource == software.type = "open_source"
        easyInstall == ~includes(software.installCommand, "Manual")
    IN  [ total   |-> recommendedScore
                      + performanceScores(calcSupport.performance)
                      + (IF methodMatch THEN 20 ELSE 0)
                      + sizeScore(software, molecule)
                      + (IF openSource THEN 15 ELSE 0)
                      + (IF easyInstall THEN 10 ELSE 0),
          details |-> [ supported      |-> TRUE,
                        performance    |-> calcSupport.performance,
                        methodMatch    |-> methodMatch,
                        sizeCompatible |-> size # 0 /\ size <= software.maxAtoms,
                        openSource     |-> openSource,
                        easyInstall    |-> easyInstall ] ]

\* scores.sort((a, b) => b.score - a.score): Array.prototype.sort is stable, so
\* an entry goes behind every entry whose score is at least its own.
\* A faulty comparator: a.score - b.score, lowest first.
RECURSIVE insertAscending(_, _)
insertAscending(sorted, entry) ==
    IF Len(sorted) = 0 THEN << entry >>
    ELSE IF Head(sorted).score <= entry.score
         THEN << Head(sorted) >> \o insertAscending(Tail(sorted), entry)
    ELSE << entry >> \o sorted

\* A faulty sort step: an entry goes before the entries of its own score.
RECURSIVE insertBeforeTies(_, _)
insertBeforeTies(sorted, entry) ==
    IF Len(sorted) = 0 THEN << entry >>
    ELSE IF Head(sorted).score > entry.score
         THEN << Head(sorted) >> \o insertBeforeTies(Tail(sorted), entry)
    ELSE << entry >> \o sorted

RECURSIVE insertByScore(_, _)
insertByScore(sorted, entry) ==
    IF Len(sorted) = 0 THEN << entry >>
    ELSE IF Head(sorted).score >= entry.score
         THEN << Head(sorted) >> \o insertByScore(Tail(sorted), entry)
    ELSE << entry >> \o sorted

RECURSIVE sortByScore(_)
sortByScore(scores) ==
    IF Len(scores) = 0 THEN << >>
    ELSE insertByScore(sortByScore(SubSeq(scores, 1, Len(scores) - 1)),
                       scores[Len(scores)])

scoreEntry(name, calculationType, theoryLevel, molecule) ==
    LET score == calculateSoftwareScore(softwareCapabilities[name], calculationType,
                                        theoryLevel, molecule)
    IN  [ name |-> name, score |-> score.total, details |-> score.details ]

rankSoftware(calculationType, theoryLevel, molecule) ==
    sortByScore([ i \in 1..Len(softwareNames) |->
                    scoreEntry(softwareNames[i], calculationType, theoryLevel, molecule) ])

getSelectionReasons(details) ==
    LET reasons ==
            (IF details.methodMatch THEN << "Excellent compatibility with chosen method" >> ELSE << >>)
         \o (IF details.performance = "excellent" THEN << "Outstanding performance for this calculation type" >> ELSE << >>)
         \o (IF details.openSource THEN << "Open source and freely available" >> ELSE << >>)
         \o (IF details.easyInstall THEN << "Easy installation via package manager" >> ELSE << >>)
         \o (IF details.sizeCompatible THEN << "Suitable for molecule size" >> ELSE << >>)
    IN  IF Len(reasons) > 0 THEN reasons
        ELSE << "Best available option for this calculation" >>

getAlternativeReason(details) ==
    IF ~details.supported THEN "Does not support this calculation type"
    ELSE IF details.performance = "poor" THEN "Poor performance for this calculation"
    ELSE IF ~details.sizeCompatible THEN "Cannot handle molecule of this size"
    ELSE "Lower overall score than selected software"

\* memory in GB; the spectrum types double it, to at least 8.
estimateResourceRequirements(calculationType, theoryLevel, molecule, software) ==
    LET size == truthySize(molecule)
        memory == IF size > 50 THEN 16 ELSE IF size > 20 THEN 8 ELSE 4
        time   == IF size > 50 THEN "2-6 hours"
                  ELSE IF size > 20 THEN "1-2 hours" ELSE "30 minutes"
        doubled == IF memory * 2 > 8 THEN memory * 2 ELSE 8
    IN  [ memory  |-> IF calculationType \in {"absorption_spectrum", "emission_spectrum"}
                      THEN doubled ELSE memory,
          cpu_cores |-> 4,
          disk_space |-> 1,
          estimated_time |-> time ]

\* A faulty slice: slice(0, 3), which starts at the selected entry.
slice03(allOptions) ==
    SubSeq(allOptions, 1, IF Len(allOptions) < 3 THEN Len(allOptions) ELSE 3)

\* A faulty slice: slice(2, 4), which reaches the last of four entries.
slice24(allOptions) ==
    SubSeq(allOptions, 3, IF Len(allOptions) < 4 THEN Len(allOptions) ELSE 4)

\* allOptions.slice(1, 3)
slice13(allOptions) ==
    SubSeq(allOptions, 2, IF Len(allOptions) < 3 THEN Len(allOptions) ELSE 3)

generateExecutionPlan(calculationType, theoryLevel, selectedSoftware, molecule, allOptions) ==
    LET software == softwareCapabilities[selectedSoftware.name]
    IN  IF calculationType \notin DOMAIN software.calculationTypes THEN Thrown
        ELSE
        LET calcInfo == software.calculationTypes[calculationType]
            alternatives == slice13(allOptions)
        IN  [ selectedSoftware |->
                [ name         |-> software.name,
                  license      |-> software.license,
                  reasons      |-> getSelectionReasons(selectedSoftware.details),
                  installation |-> IF includes(software.installCommand, "Manual")
                                   THEN "Manual" ELSE "Automatic" ],
              computationalSetup |->
                [ method               |-> theoryLevel.preferredMethod,
                  functional           |-> theoryLevel.functional,
                  basisSet             |-> theoryLevel.basisSet,
                  estimatedPerformance |-> calcInfo.performance ],
              resourceRequirements |->
                estimateResourceRequirements(calculationType, theoryLevel, molecule, software),
              alternativeSoftware |->
                [ i \in 1..Len(alternatives) |->
                    [ name   |-> softwareCapabilities[alternatives[i].name].name,
                      score  |-> alternatives[i].score,
                      reason |-> getAlternativeReason(alternatives[i].details) ] ] ]

plan(researchPlan, molecule) ==
    LET calculationType == researchPlan.calculationType
        theoryLevel == researchPlan.theoryLevel
        allOptions == rankSoftware(calculationType, theoryLevel, molecule)
        selectedSoftware == allOptions[1]
        executionPlan == generateExecutionPlan(calculationType, theoryLevel,
                                               selectedSoftware, molecule, allOptions)
    IN  IF executionPlan = Thrown THEN Thrown
        ELSE [ success             |-> TRUE,
               selectedSoftware    |-> selectedSoftware,
               alternativeSoftware |-> slice13(allOptions),
               executionPlan       |-> executionPlan ]

\* ----------------------------------------------------------------- numbers
\*
\* The estimators compute in floating point; the model counts in fixed point
\* and rounds to the nearest unit after every multiplication:
\*   a molecule size    in thirds of an atom (estimateMoleculeSize divides a
\*                      string length by 3),
\*   a duration         in hundredths of a minute,
\*   a factor           in tenths, a scaling exponent in tenths,
\*   an error           in hundred-thousandths of its unit.

\* A size of n atoms.
atoms(n) == 3 * n

\* A duration of n minutes.
minutesOf(n) == 100 * n

\* An error of n thousandths of its unit.
thousandths(n) == 100 * n

\* n / d, rounded half up as Math.round does (d is even, n >= 0).
roundDiv(n, d) == (n + d \div 2) \div d

\* x * factor, for a factor given in tenths.
timesTenths(x, factor) == roundDiv(x * factor, 10)

\* x * factor, for a factor given in hundredths.
timesHundredths(x, factor) == roundDiv(x * factor, 100)

\* The property of an object literal, or Undefined when the key is absent.
lookup(table, key) == IF key \in DOMAIN table THEN table[key] ELSE Undefined

\* ------------------------------------------------------------ TimeEstimator

\* base in tenths of a minute, scaling in tenths.
baseTimes ==
    [ geometry_optimization |->
        [ xtb   |-> [ base |-> 5,   scaling |-> 12 ],
          psi4  |-> [ base |-> 50,  scaling |-> 20 ],
          orca  |-> [ base |-> 30,  scaling |-> 18 ],
          pyscf |-> [ base |-> 80,  scaling |-> 22 ] ],
      absorption_spectrum |->
        [ psi4  |-> [ base |-> 150, scaling |-> 30 ],
          orca  |-> [ base |-> 120, scaling |-> 25 ],
          pyscf |-> [ base |-> 250, scaling |-> 35 ] ],
      frequency_analysis |->
        [ xtb   |-> [ base |-> 20,  scaling |-> 15 ],
          psi4  |-> [ base |-> 200, scaling |-> 35 ],
          orca  |-> [ base |-> 150, scaling |-> 30 ] ],
      nmr_prediction |->
        [ psi4  |-> [ base |-> 300, scaling |-> 30 ],
          orca  |-> [ base |-> 250, scaling |-> 28 ] ] ]

\* In tenths.
basisSetFactors ==
    "STO-3G" :> 10 @@ "def2-SVP" :> 15 @@ "def2-TZVP" :> 30 @@ "def2-QZVP" :> 80 @@
    "cc-pVDZ" :> 20 @@ "cc-pVTZ" :> 50 @@ "aug-cc-pVDZ" :> 35 @@ "aug-cc-pVTZ" :> 120

\* A faulty table: the factors of low and full have changed places.
precisionFactorsInverted == [ low |-> 25, half |-> 10, full |-> 5 ]

\* In tenths.
precisionFactors == [ low |-> 5, half |-> 10, full |-> 25 ]

\* In tenths.
functionalFactors ==
    "B3LYP" :> 10 @@ "CAM-B3LYP" :> 13 @@ "M06-2X" :> 12 @@ "wB97XD" :> 14 @@
    "HF" :> 8 @@ "xtb" :> 1

\* The sizes Math.pow is tabulated for, in thirds of an atom.
powSizes == << 3, 11, 18, 27, 30, 36, 57, 60, 63, 87, 90, 93, 150, 153 >>

\* Math.pow(moleculeSize / 10, scaling) in thousandths, to the nearest one:
\* one row per scaling exponent of baseTimes, one column per size of powSizes.
powRows ==
    12 :> << 63, 300, 542, 881, 1000, 1245, 2160, 2297, 2436, 3588, 3737, 3887, 6899, 7065 >> @@
    15 :> << 32, 222, 465, 854, 1000, 1315, 2619, 2828, 3043, 4939, 5196, 5458, 11180, 11517 >> @@
    18 :> << 16, 164, 399, 827, 1000, 1388, 3175, 3482, 3802, 6797, 7225, 7664, 18119, 18777 >> @@
    20 :> << 10, 134, 360, 810, 1000, 1440, 3610, 4000, 4410, 8410, 9000, 9610, 25000, 26010 >> @@
    22 :> << 6, 110, 325, 793, 1000, 1493, 4104, 4595, 5115, 10406, 11212, 12050, 34493, 36029 >> @@
    25 :> << 3, 81, 279, 768, 1000, 1577, 4976, 5657, 6391, 14322, 15588, 16920, 55902, 58739 >> @@
    28 :> << 2, 60, 239, 745, 1000, 1666, 6033, 6964, 7984, 19711, 21674, 23758, 90597, 95763 >> @@
    30 :> << 1, 49, 216, 729, 1000, 1728, 6859, 8000, 9261, 24389, 27000, 29791, 125000, 132651 >> @@
    35 :> << 0, 30, 167, 692, 1000, 1893, 9454, 11314, 13420, 41533, 46765, 52452, 279508, 299568 >>

pow(moleculeSize, scaling) ==
    powRows[scaling][CHOOSE i \in 1..Len(powSizes) : powSizes[i] = moleculeSize]

\* `${n} ${word}`
numbered(n, word) == ToString(n) \o " " \o word

\* A faulty formatDuration: its thresholds belong to the unit below.
formatDurationInclusive(minutes) ==
    IF minutes <= minutesOf(1)
    THEN numbered(roundDiv(minutes * 60, 100), "seconds")
    ELSE IF minutes <= minutesOf(60)
    THEN numbered(roundDiv(minutes, 100), "minutes")
    ELSE IF minutes <= minutesOf(24 * 60)
    THEN LET hours == minutes \div minutesOf(60)
             remainingMinutes == roundDiv(minutes % minutesOf(60), 100)
         IN  IF remainingMinutes = 0
             THEN numbered(hours, IF hours # 1 THEN "hours" ELSE "hour")
             ELSE ToString(hours) \o "h " \o ToString(remainingMinutes) \o "m"
    ELSE LET days == minutes \div minutesOf(24 * 60)
             remainingHours == (minutes % minutesOf(24 * 60)) \div minutesOf(60)
         IN  numbered(days, IF days # 1 THEN "days" ELSE "day")
             \o " " \o ToString(remainingHours) \o "h"

\* minutes is in hundredths of a minute.
formatDuration(minutes) ==
    IF minutes < minutesOf(1)
    THEN numbered(roundDiv(minutes * 60, 100), "seconds")
    ELSE IF minutes < minutesOf(60)
    THEN numbered(roundDiv(minutes, 100), "minutes")
    ELSE IF minutes < minutesOf(24 * 60)
    THEN LET hours == minutes \div minutesOf(60)
             remainingMinutes == roundDiv(minutes % minutesOf(60), 100)
         IN  IF remainingMinutes = 0
             THEN numbered(hours, IF hours # 1 THEN "hours" ELSE "hour")
             ELSE ToString(hours) \o "h " \o ToString(remainingMinutes) \o "m"
    ELSE LET days == minutes \div minutesOf(24 * 60)
             remainingHours == (minutes % minutesOf(24 * 60)) \div minutesOf(60)
         IN  numbered(days, IF days # 1 THEN "days" ELSE "day")
             \o " " \o ToString(remainingHours) \o "h"

\* this.basisSetFactors[params.basisSet] > n, false for a basis set off the table
basisSetFactorAbove(basisSet, n) ==
    basisSet \in DOMAIN basisSetFactors /\ basisSetFactors[basisSet] > n

TimeEstimator_getConfidenceLevel(params) ==
    IF basisSetFactorAbove(params.basisSet, 50) THEN "low"
    ELSE IF params.moleculeSize > atoms(100) THEN "low"
    ELSE IF params.software = "psi4" /\ params.calculationType = "geometry_optimization"
    THEN "high"
    ELSE "medium"

\* One entry per factor, by its subject; the sentences are left out.
getTimingFactors(params) ==
       (IF params.moleculeSize > atoms(30) THEN << "Large molecule" >> ELSE << >>)
    \o (IF basisSetFactorAbove(params.basisSet, 30) THEN << "Large basis set" >> ELSE << >>)
    \o (IF params.calculationType = "absorption_spectrum" THEN << "TD-DFT" >> ELSE << >>)
    \o (IF params.precisionLevel = "full" THEN << "Full precision" >> ELSE << >>)

\* A faulty identifyBottlenecks: the basis set is not looked at.
identifyBottlenecksBySize(params, totalMinutes) ==
       (IF totalMinutes > minutesOf(120) THEN << "CPU" >> ELSE << >>)
    \o (IF params.moleculeSize > atoms(50) THEN << "Memory" >> ELSE << >>)
    \o (IF params.calculationType = "absorption_spectrum" /\ params.moleculeSize > atoms(30)
        THEN << "Convergence" >> ELSE << >>)

\* The type of each entry, in the order they are pushed.
identifyBottlenecks(params, totalMinutes) ==
       (IF totalMinutes > minutesOf(120) THEN << "CPU" >> ELSE << >>)
    \o (IF params.moleculeSize > atoms(50) \/ basisSetFactorAbove(params.basisSet, 50)
        THEN << "Memory" >> ELSE << >>)
    \o (IF params.calculationType = "absorption_spectrum" /\ params.moleculeSize > atoms(30)
        THEN << "Convergence" >> ELSE << >>)

\* hours is totalMinutes / 60 and is kept in the unit of totalMinutes, so that
\* n hours are minutesOf(60 * n).
formatTimeEstimate(totalMinutes, minTime, maxTime, params) ==
    [ minutes    |-> roundDiv(totalMinutes, 100),
      hours      |-> totalMinutes,
      range      |-> [ min      |-> roundDiv(minTime, 100),
                       max      |-> roundDiv(maxTime, 100),
                       minHours |-> minTime,
                       maxHours |-> maxTime ],
      formatted  |-> formatDuration(totalMinutes),
      rangeFormatted |-> formatDuration(minTime) \o " - " \o formatDuration(maxTime),
      confidence |-> TimeEstimator_getConfidenceLevel(params),
      factors    |-> getTimingFactors(params),
      bottlenecks |-> identifyBottlenecks(params, totalMinutes) ]

\* Minutes.
defaultTimes ==
    [ geometry_optimization |-> [ low |-> 15, half |-> 45,  full |-> 120 ],
      absorption_spectrum   |-> [ low |-> 30, half |-> 90,  full |-> 300 ],
      frequency_analysis    |-> [ low |-> 45, half |-> 120, full |-> 360 ],
      nmr_prediction        |-> [ low |-> 60, half |-> 180, full |-> 480 ] ]

getDefaultEstimate(calculationType, precisionLevel) ==
    LET row == lookup(defaultTimes, calculationType)
        timeMinutes ==
            IF row # Undefined /\ precisionLevel \in DOMAIN row
            THEN row[precisionLevel] ELSE 60
    IN  [ minutes    |-> timeMinutes,
          hours      |-> minutesOf(timeMinutes),
          range      |-> [ min      |-> roundDiv(timeMinutes * 7, 10),
                           max      |-> roundDiv(timeMinutes * 15, 10),
                           minHours |-> timesTenths(minutesOf(timeMinutes), 7),
                           maxHours |-> timesTenths(minutesOf(timeMinutes), 15) ],
          formatted  |-> formatDuration(minutesOf(timeMinutes)),
          rangeFormatted |-> formatDuration(timesTenths(minutesOf(timeMinutes), 7)) \o " - "
                             \o formatDuration(timesTenths(minutesOf(timeMinutes), 15)),
          confidence |-> "low",
          factors    |-> << "Using default timing estimates" >>,
          bottlenecks |-> << >> ]

\* A faulty lookup: a software without an entry is timed as psi4.
baseDataOfPsi4(calculationType, software) ==
    IF calculationType \in DOMAIN baseTimes
    THEN IF software \in DOMAIN baseTimes[calculationType]
         THEN baseTimes[calculationType][software]
         ELSE lookup(baseTimes[calculationType], "psi4")
    ELSE Undefined

\* this.baseTimes[calculationType]?.[software]
baseDataOf(calculationType, software) ==
    IF calculationType \in DOMAIN baseTimes
    THEN lookup(baseTimes[calculationType], software) ELSE Undefined

\* calculationParams is the record
\* [calculationType, precisionLevel, moleculeSize, basisSet, functional, software].
TimeEstimator_estimate(calculationParams) ==
    LET calculationType == calculationParams.calculationType
        precisionLevel  == calculationParams.precisionLevel
        moleculeSize    == calculationParams.moleculeSize
        basisSet        == calculationParams.basisSet
        functional      == calculationParams.functional
        software        == calculationParams.software
        baseData        == baseDataOf(calculationType, software)
    IN  IF baseData = Undefined
        THEN getDefaultEstimate(calculationType, precisionLevel)
        ELSE
        LET baseTime   == baseData.base
            scaling    == baseData.scaling
            sizeScale  == pow(moleculeSize, scaling)
            basisFactor ==
                IF basisSet \in DOMAIN basisSetFactors THEN basisSetFactors[basisSet] ELSE 15
            precisionFactor ==
                IF precisionLevel \in DOMAIN precisionFactors
                THEN precisionFactors[precisionLevel] ELSE 10
            functionalFactor ==
                IF functional \in DOMAIN functionalFactors
                THEN functionalFactors[functional] ELSE 10
            \* baseTime (tenths) * sizeScale (thousandths), in hundredths
            totalMinutes ==
                timesTenths(timesTenths(timesTenths(
                    roundDiv(baseTime * sizeScale, 100),
                    basisFactor), precisionFactor), functionalFactor)
            minTime == timesTenths(totalMinutes, 7)
            maxTime == timesTenths(totalMinutes, 13)
        IN  formatTimeEstimate(totalMinutes, minTime, maxTime, calculationParams)

\* -------------------------------------------------------- AccuracyEstimator
\*
\* The units are written in ASCII: "A" for the angstrom, "cm-1" for the
\* reciprocal centimetre, "+-" for the plus-minus sign.

Benchmark(meanError, stdDev, unit) ==
    [ meanError |-> thousandths(meanError), stdDev |-> thousandths(stdDev), unit |-> unit ]

\* accuracyBenchmarks[type].experimental_vs_calculated; the arguments of
\* Benchmark are thousandths of the unit.
accuracyBenchmarks ==
    [ absorption_spectrum |->
        "B3LYP/def2-SVP"      :> Benchmark(350, 250, "eV") @@
        "B3LYP/def2-TZVP"     :> Benchmark(250, 200, "eV") @@
        "B3LYP/def2-QZVP"     :> Benchmark(200, 180, "eV") @@
        "CAM-B3LYP/def2-SVP"  :> Benchmark(250, 220, "eV") @@
        "CAM-B3LYP/def2-TZVP" :> Benchmark(180, 180, "eV") @@
        "CAM-B3LYP/def2-QZVP" :> Benchmark(150, 150, "eV"),
      geometry_optimization |->
        "B3LYP/def2-SVP"      :> Benchmark(15, 12, "A") @@
        "B3LYP/def2-TZVP"     :> Benchmark(8, 8, "A") @@
        "B3LYP/def2-QZVP"     :> Benchmark(5, 6, "A"),
      frequency_analysis |->
        "B3LYP/def2-SVP"      :> Benchmark(35000, 25000, "cm-1") @@
        "B3LYP/def2-TZVP"     :> Benchmark(25000, 20000, "cm-1") @@
        "B3LYP/def2-QZVP"     :> Benchmark(20000, 18000, "cm-1"),
      homo_lumo |->
        "B3LYP/def2-SVP"      :> Benchmark(400, 300, "eV") @@
        "B3LYP/def2-TZVP"     :> Benchmark(300, 250, "eV") @@
        "B3LYP/def2-QZVP"     :> Benchmark(250, 220, "eV") ]

\* Faulty multipliers: the tiers' error multipliers the wrong way round.
precisionAccuracyInverted ==
    [ low  |-> [ multiplier |-> 7,  description |-> "Significant quantitative errors expected" ],
      half |-> [ multiplier |-> 10, description |-> "Good quantitative accuracy" ],
      full |-> [ multiplier |-> 25, description |-> "Best available accuracy" ] ]

\* multiplier in tenths
precisionAccuracy ==
    [ low  |-> [ multiplier |-> 25, description |-> "Significant quantitative errors expected" ],
      half |-> [ multiplier |-> 10, description |-> "Good quantitative accuracy" ],
      full |-> [ multiplier |-> 7,  description |-> "Best available accuracy" ] ]

\* In hundredths.
functionalCorrections ==
    "B3LYP"     :> [ chargeTransfer |-> 100, generalAccuracy |-> 100 ] @@
    "CAM-B3LYP" :> [ chargeTransfer |-> 70,  generalAccuracy |-> 90 ] @@
    "M06-2X"    :> [ chargeTransfer |-> 80,  generalAccuracy |-> 95 ] @@
    "wB97XD"    :> [ chargeTransfer |-> 75,  generalAccuracy |-> 90 ] @@
    "PBE"       :> [ chargeTransfer |-> 130, generalAccuracy |-> 110 ] @@
    "HF"        :> [ chargeTransfer |-> 90,  generalAccuracy |-> 120 ]

\* In hundredths.
qualityMap ==
    "STO-3G" :> 20 @@ "def2-SVP" :> 70 @@ "def2-TZVP" :> 90 @@ "def2-QZVP" :> 100 @@
    "cc-pVDZ" :> 80 @@ "cc-pVTZ" :> 95 @@ "aug-cc-pVDZ" :> 85 @@ "aug-cc-pVTZ" :> 98

estimateBasisSetQuality(basisSet) ==
    IF basisSet \in DOMAIN qualityMap THEN qualityMap[basisSet] ELSE 50

\* The coefficients of getDefaultAccuracy, in thousandths of the unit.
defaultAccuracyCoefficients ==
    [ absorption_spectrum   |-> [ meanError |-> 400,   stdDev |-> 300,   unit |-> "eV" ],
      geometry_optimization |-> [ meanError |-> 20,    stdDev |-> 15,    unit |-> "A" ],
      frequency_analysis    |-> [ meanError |-> 50000, stdDev |-> 35000, unit |-> "cm-1" ],
      homo_lumo             |-> [ meanError |-> 500,   stdDev |-> 400,   unit |-> "eV" ] ]

\* coefficient * (1.5 - basisQuality)
getDefaultAccuracy(calculationType, basisQuality) ==
    IF calculationType \in DOMAIN defaultAccuracyCoefficients
    THEN LET c == defaultAccuracyCoefficients[calculationType]
         IN  [ meanError |-> timesHundredths(thousandths(c.meanError), 150 - basisQuality),
               stdDev    |-> timesHundredths(thousandths(c.stdDev), 150 - basisQuality),
               unit      |-> c.unit ]
    ELSE [ meanError |-> thousandths(100), stdDev |-> thousandths(100), unit |-> "a.u." ]

\* `${functional}/${basisSet}`
methodKeyOf(functional, basisSet) == functional \o "/" \o basisSet

\* benchmarks && benchmarks[methodKey]
hasBenchmark(calculationType, functional, basisSet) ==
    /\ calculationType \in DOMAIN accuracyBenchmarks
    /\ methodKeyOf(functional, basisSet) \in DOMAIN accuracyBenchmarks[calculationType]

\* A faulty lookup: the benchmark of the basis set with B3LYP stands in for
\* every functional.
getBaseAccuracyOfBasisSet(calculationType, functional, basisSet) ==
    IF hasBenchmark(calculationType, "B3LYP", basisSet)
    THEN accuracyBenchmarks[calculationType][methodKeyOf("B3LYP", basisSet)]
    ELSE getDefaultAccuracy(calculationType, estimateBasisSetQuality(basisSet))

getBaseAccuracy(calculationType, functional, basisSet) ==
    IF hasBenchmark(calculationType, functional, basisSet)
    THEN accuracyBenchmarks[calculationType][methodKeyOf(functional, basisSet)]
    ELSE getDefaultAccuracy(calculationType, estimateBasisSetQuality(basisSet))

calculateExpectedError(baseAccuracy, precisionCorrection, functionalCorrection, calculationType) ==
    LET baseError == baseAccuracy.meanError
        precisionMultiplier == precisionCorrection.multiplier
        functionalMultiplier == functionalCorrection.generalAccuracy
        adjustedError ==
            timesHundredths(timesTenths(baseError, precisionMultiplier), functionalMultiplier)
    IN  [ mean   |-> adjustedError,
          stdDev |-> timesTenths(baseAccuracy.stdDev, precisionMultiplier),
          unit   |-> baseAccuracy.unit,
          range  |-> [ low  |-> timesTenths(adjustedError, 5),
                       high |-> timesTenths(adjustedError, 18) ] ]

\* Two decimal digits of a count n < 100.
twoDigits(n) == IF n < 10 THEN "0" \o ToString(n) ELSE ToString(n)

\* Number.prototype.toFixed(2) of an error.
toFixed2(error) ==
    LET hundredths == roundDiv(error, 1000)
    IN  ToString(hundredths \div 100) \o "." \o twoDigits(hundredths % 100)

\* (error * 1000).toFixed(1)
toFixed1Milli(error) ==
    LET tenths == roundDiv(error, 10)
    IN  ToString(tenths \div 10) \o "." \o ToString(tenths % 10)

getExperimentalAccuracy(expectedError, calculationType) ==
    LET errorMagnitude == expectedError.mean
        unit == expectedError.unit
        category ==
            IF calculationType = "absorption_spectrum"
            THEN IF errorMagnitude < thousandths(200) THEN "Excellent"
                 ELSE IF errorMagnitude < thousandths(400) THEN "Good"
                 ELSE IF errorMagnitude < thousandths(800) THEN "Fair"
                 ELSE "Poor"
            ELSE IF errorMagnitude < thousandths(100) THEN "Excellent"
                 ELSE IF errorMagnitude < thousandths(300) THEN "Good"
                 ELSE IF errorMagnitude < thousandths(600) THEN "Fair"
                 ELSE "Poor"
        description ==
            IF calculationType = "absorption_spectrum"
            THEN IF errorMagnitude < thousandths(200)
                 THEN "Quantitative agreement with experiment expected"
                 ELSE IF errorMagnitude < thousandths(400)
                 THEN "Good agreement with experimental trends"
                 ELSE IF errorMagnitude < thousandths(800)
                 THEN "Qualitative agreement expected"
                 ELSE "Large deviations from experiment likely"
            ELSE "Expected error: +-" \o toFixed2(errorMagnitude) \o " " \o unit
    IN  [ category           |-> category,
          description        |-> description,
          expectedDeviation  |-> "+-" \o toFixed2(errorMagnitude) \o " " \o unit,
          confidenceInterval |-> toFixed2(expectedError.range.low) \o " - "
                                 \o toFixed2(expectedError.range.high) \o " " \o unit ]

\* In tenths.
relativeDifferences == "low_vs_half" :> 18 @@ "low_vs_full" :> 25 @@ "half_vs_full" :> 14

\* The result is a string for the reference level 'experiment' and an object
\* otherwise; the string is held in the field text.
getRelativeAccuracy(precisionLevel, referenceLevel, expectedError) ==
    IF referenceLevel = "experiment" THEN [ text |-> "See experimental accuracy" ]
    ELSE
    LET comparisonKey == precisionLevel \o "_vs_" \o referenceLevel
        factor == IF comparisonKey \in DOMAIN relativeDifferences
                  THEN relativeDifferences[comparisonKey] ELSE 10
    IN  [ relativeDifference |-> ToString((factor - 10) * 10) \o "%",
          description        |-> "Expected to be "
                                 \o (IF factor > 10 THEN "less" ELSE "more")
                                 \o " accurate than " \o referenceLevel \o " precision",
          expectedDeviation  |-> "+-" \o toFixed2(timesTenths(expectedError.mean, factor))
                                 \o " " \o expectedError.unit ]

formatError(expectedError, calculationType) ==
    LET mean == expectedError.mean
        unit == expectedError.unit
    IN  IF mean < thousandths(10) THEN "+-" \o toFixed1Milli(mean) \o " m" \o unit
        ELSE IF mean < thousandths(1000) THEN "+-" \o toFixed2(mean) \o " " \o unit
        ELSE "+-" \o ToString(roundDiv(mean, 100000)) \o " " \o unit

getConfidenceDescription(confidence) ==
    IF confidence > 85 THEN "Results should be quantitatively reliable"
    ELSE IF confidence > 70 THEN "Results should capture major trends accurately"
    ELSE IF confidence > 50 THEN "Results useful for qualitative comparisons"
    ELSE "Results should be interpreted with caution"

\* let confidence = 70, and the three adjustments
rawConfidence(params) ==
    70
    + (IF params.functional = "B3LYP" /\ params.basisSet = "def2-TZVP" THEN 20 ELSE 0)
    + (IF params.calculationType = "geometry_optimization" THEN 10
       ELSE IF params.calculationType = "absorption_spectrum" THEN -5 ELSE 0)
    + (IF params.precisionLevel = "full" THEN 15
       ELSE IF params.precisionLevel = "low" THEN -20 ELSE 0)

\* A faulty confidence: the sum of the adjustments, not clamped.
AccuracyEstimator_getConfidenceLevelUnclamped(params) ==
    LET confidence == rawConfidence(params)
    IN  [ percentage  |-> confidence,
          level       |-> IF confidence > 80 THEN "High"
                          ELSE IF confidence > 60 THEN "Medium" ELSE "Low",
          description |-> getConfidenceDescription(confidence) ]

AccuracyEstimator_getConfidenceLevel(params) ==
    LET raw == rawConfidence(params)
        capped == IF raw < 95 THEN raw ELSE 95
        confidence == IF capped > 20 THEN capped ELSE 20
    IN  [ percentage  |-> confidence,
          level       |-> IF confidence > 80 THEN "High"
                          ELSE IF confidence > 60 THEN "Medium" ELSE "Low",
          description |-> getConfidenceDescription(confidence) ]

\* score in hundredths; the returned score is rounded to tenths and kept in
\* hundredths.
getReliabilityLevel(params) ==
    LET basisQuality == estimateBasisSetQuality(params.basisSet)
        spectrum == params.calculationType = "absorption_spectrum"
        cam == spectrum /\ includes(params.functional, "CAM")
        b3lyp == spectrum /\ ~cam /\ params.functional = "B3LYP"
        raw == 500 + 2 * basisQuality
               + (IF cam THEN 100 ELSE IF b3lyp THEN -50 ELSE 0)
               + (IF params.precisionLevel = "full" THEN 150
                  ELSE IF params.precisionLevel = "low" THEN -100 ELSE 0)
        capped == IF raw < 1000 THEN raw ELSE 1000
        score == IF capped > 100 THEN capped ELSE 100
        factors ==
               (IF basisQuality > 80 THEN << "High-quality basis set" >> ELSE << >>)
            \o (IF basisQuality < 50 THEN << "Small basis set may limit accuracy" >> ELSE << >>)
            \o (IF cam THEN << "Range-separated functional good for excitations" >> ELSE << >>)
            \o (IF b3lyp THEN << "B3LYP may struggle with charge-transfer excitations" >>
                ELSE << >>)
            \o (IF params.precisionLevel = "full"
                THEN << "Full precision settings improve reliability" >>
                ELSE IF params.precisionLevel = "low"
                THEN << "Low precision may affect convergence" >> ELSE << >>)
    IN  [ score   |-> roundDiv(score, 10) * 10,
          level   |-> IF score > 750 THEN "High" ELSE IF score > 500 THEN "Medium" ELSE "Low",
          factors |-> factors ]

getLimitations(params) ==
       (IF params.calculationType = "absorption_spectrum"
        THEN << "TD-DFT may not capture double excitations" >>
             \o (IF params.functional = "B3LYP"
                 THEN << "B3LYP tends to underestimate charge-transfer excitation energies" >>
                 ELSE << >>)
        ELSE << >>)
    \o (IF params.basisSet = "STO-3G"
        THEN << "Minimal basis set - quantitative accuracy limited" >>
        ELSE IF params.basisSet = "def2-SVP"
        THEN << "Double-zeta basis - consider larger basis for high accuracy" >>
        ELSE << >>)
    \o (IF params.precisionLevel = "low"
        THEN << "Loose convergence criteria may affect accuracy",
                "Results should be used for trends rather than absolute values" >>
        ELSE << >>)
    \o << "All DFT calculations have inherent approximations",
          "Solvent effects may not be fully captured in gas-phase calculations" >>

getBenchmarkReference(calculationType, functional, basisSet) ==
    IF hasBenchmark(calculationType, functional, basisSet)
    THEN [ available |-> TRUE,
           source    |-> "Compiled benchmark database",
           nMolecules |-> "50-200 molecules",
           reference |-> accuracyBenchmarks[calculationType][methodKeyOf(functional, basisSet)] ]
    ELSE [ available |-> FALSE,
           source    |-> "No specific benchmark data",
           recommendation |-> "Consider validating against experimental data" ]

\* calculationParams is the record
\* [calculationType, precisionLevel, basisSet, functional] with or without a
\* referenceLevel. A precision level off the table leaves precisionCorrection
\* undefined, and calculateExpectedError reads its multiplier.
AccuracyEstimator_estimate(calculationParams) ==
    LET calculationType == calculationParams.calculationType
        precisionLevel  == calculationParams.precisionLevel
        basisSet        == calculationParams.basisSet
        functional      == calculationParams.functional
        referenceLevel  == IF "referenceLevel" \in DOMAIN calculationParams
                           THEN calculationParams.referenceLevel ELSE "experiment"
        baseAccuracy    == getBaseAccuracy(calculationType, functional, basisSet)
    IN  IF precisionLevel \notin DOMAIN precisionAccuracy THEN Thrown
        ELSE
        LET precisionCorrection == precisionAccuracy[precisionLevel]
            functionalCorrection ==
                IF functional \in DOMAIN functionalCorrections
                THEN functionalCorrections[functional]
                ELSE [ generalAccuracy |-> 100 ]
            expectedError == calculateExpectedError(baseAccuracy, precisionCorrection,
                                                    functionalCorrection, calculationType)
        IN  [ vsExperiment  |-> getExperimentalAccuracy(expectedError, calculationType),
              vsFull        |-> getRelativeAccuracy(precisionLevel, referenceLevel, expectedError),
              expectedError |-> formatError(expectedError, calculationType),
              confidence    |-> AccuracyEstimator_getConfidenceLevel(calculationParams),
              reliability   |-> getReliabilityLevel(calculationParams),
              limitations   |-> getLimitations(calculationParams),
              benchmarkData |-> getBenchmarkReference(calculationType, functional, basisSet) ]

\* ------------------------------------------------------ PrecisionCalculator

\* Object.keys(this.precisionLevels), in insertion order.
precisionLevelNames == << "full", "half", "low" >>

PrecisionLevelSet == Range(precisionLevelNames)

precisionLevels ==
    [ full |-> [ name        |-> "Full Precision",
                 description |-> "Maximum accuracy using large basis sets and tight convergence",
                 priority    |-> 1,
                 color       |-> "blue" ],
      half |-> [ name        |-> "Balanced Precision",
                 description |-> "Good accuracy with reasonable computational cost",
                 priority    |-> 2,
                 color       |-> "green" ],
      low  |-> [ name        |-> "Fast Preview",
                 description |-> "Quick results using smaller basis sets for initial screening",
                 priority    |-> 3,
                 color       |-> "yellow" ] ]

basisSetHierarchy ==
    [ full |-> [ small |-> "def2-QZVP", medium |-> "def2-TZVP", large |-> "def2-SVP" ],
      half |-> [ small |-> "def2-TZVP", medium |-> "def2-SVP",  large |-> "def2-SVP" ],
      low  |-> [ small |-> "def2-SVP",  medium |-> "STO-3G",    large |-> "STO-3G" ] ]

\* The thresholds are powers of ten, kept by their exponents.
convergenceCriteria ==
    [ full |-> [ energy |-> -8, gradient |-> -6, density |-> -8, maxIterations |-> 200 ],
      half |-> [ energy |-> -6, gradient |-> -4, density |-> -6, maxIterations |-> 100 ],
      low  |-> [ energy |-> -4, gradient |-> -3, density |-> -4, maxIterations |-> 50 ] ]

\* A MoleculeInfo that carries its atoms; estimatedSize 0 is a missing one.
MoleculeWithAtoms(name, atomList) ==
    [ kind |-> "record", name |-> name, smiles |-> "", estimatedSize |-> 0,
      atoms |-> atomList ]

\* A faulty size: the estimatedSize of the record is not read.
estimateMoleculeSizeOfSmiles(molecule) ==
    IF molecule.kind = "null" THEN Thrown
    ELSE IF molecule.kind = "string" THEN atoms(10)
    ELSE IF "atoms" \in DOMAIN molecule THEN atoms(Len(molecule.atoms))
    ELSE IF molecule.smiles # ""
    THEN LET heavyAtoms == countHeavyAtoms(molecule.smiles)
         IN  IF atoms(heavyAtoms) >= Len(molecule.smiles)
             THEN atoms(heavyAtoms) ELSE Len(molecule.smiles)
    ELSE atoms(10)

\* In thirds of an atom. Reading a property of null throws; a string has none
\* of the three properties.
estimateMoleculeSize(molecule) ==
    IF molecule.kind = "null" THEN Thrown
    ELSE IF molecule.kind = "string" THEN atoms(10)
    ELSE IF molecule.estimatedSize # 0 THEN atoms(molecule.estimatedSize)
    ELSE IF "atoms" \in DOMAIN molecule THEN atoms(Len(molecule.atoms))
    ELSE IF molecule.smiles # ""
    THEN LET heavyAtoms == countHeavyAtoms(molecule.smiles)
         IN  IF atoms(heavyAtoms) >= Len(molecule.smiles)
             THEN atoms(heavyAtoms) ELSE Len(molecule.smiles)
    ELSE atoms(10)

\* A faulty category: ten atoms still count as small, thirty as medium.
getSizeCategoryInclusive(moleculeSize) ==
    IF moleculeSize <= atoms(10) THEN "small"
    ELSE IF moleculeSize <= atoms(30) THEN "medium"
    ELSE "large"

getSizeCategory(moleculeSize) ==
    IF moleculeSize < atoms(10) THEN "small"
    ELSE IF moleculeSize < atoms(30) THEN "medium"
    ELSE "large"

\* memory and disk in GB
getComputationalParameters(precisionLevel, sizeCategory) ==
    LET params ==
        [ full |-> [ small  |-> [ memory |-> "8 GB",  cores |-> 8,  disk |-> "5 GB" ],
                     medium |-> [ memory |-> "16 GB", cores |-> 16, disk |-> "10 GB" ],
                     large  |-> [ memory |-> "32 GB", cores |-> 24, disk |-> "20 GB" ] ],
          half |-> [ small  |-> [ memory |-> "4 GB",  cores |-> 4,  disk |-> "2 GB" ],
                     medium |-> [ memory |-> "8 GB",  cores |-> 8,  disk |-> "5 GB" ],
                     large  |-> [ memory |-> "16 GB", cores |-> 12, disk |-> "10 GB" ] ],
          low  |-> [ small  |-> [ memory |-> "2 GB",  cores |-> 2,  disk |-> "1 GB" ],
                     medium |-> [ memory |-> "4 GB",  cores |-> 4,  disk |-> "2 GB" ],
                     large  |-> [ memory |-> "8 GB",  cores |-> 6,  disk |-> "3 GB" ] ] ]
    IN  params[precisionLevel][sizeCategory]

getGeneralRecommendation(level) ==
    [ full |-> "Use when highest accuracy is required and computational resources allow",
      half |-> "Recommended balance of accuracy and computational efficiency",
      low  |-> "Good for initial screening and rapid results" ][level]

getRecommendation(level, calculationType, molecule) ==
    LET size == estimateMoleculeSize(molecule)
    IN  IF calculationType = "absorption_spectrum"
        THEN IF level = "full"
             THEN IF size < atoms(20) THEN "Recommended for publication-quality results"
                  ELSE "Use only if high accuracy is critical"
             ELSE IF level = "half"
             THEN "Good balance of accuracy and speed - recommended for most studies"
             ELSE "Good for initial screening and method testing"
        ELSE IF calculationType = "geometry_optimization"
        THEN IF level = "full"
             THEN IF size < atoms(30) THEN "Best for accurate geometric parameters"
                  ELSE "May be too expensive"
             ELSE IF level = "half"
             THEN "Recommended for most optimization tasks"
             ELSE "Good for initial structure generation"
        ELSE getGeneralRecommendation(level)

getWarnings(level, calculationType, molecule) ==
    LET size == estimateMoleculeSize(molecule)
    IN     (IF level = "full" /\ size > atoms(50)
            THEN << "Very large molecule - calculation may take days or fail" >> ELSE << >>)
        \o (IF level = "low" /\ calculationType = "absorption_spectrum"
            THEN << "Low precision may not capture charge-transfer excitations accurately" >>
            ELSE << >>)
        \o (IF level = "low"
            THEN << "Results may have significant quantitative errors - use for trends only" >>
            ELSE << >>)
        \o (IF calculationType = "nmr_prediction" /\ level = "low"
            THEN << "NMR predictions require higher precision for reliable chemical shifts" >>
            ELSE << >>)

\* Math.round((accuracy + speed + efficiency) / 3)
analyzeCostBenefit(level, timeEstimate, accuracyEstimate) ==
    LET scores ==
        [ full |-> [ accuracy   |-> 10,
                     speed      |-> IF timeEstimate.hours < minutesOf(60 * 4) THEN 6
                                    ELSE IF timeEstimate.hours < minutesOf(60 * 12) THEN 4
                                    ELSE 2,
                     efficiency |-> IF timeEstimate.hours < minutesOf(60 * 2) THEN 8
                                    ELSE IF timeEstimate.hours < minutesOf(60 * 8) THEN 6
                                    ELSE 4 ],
          half |-> [ accuracy |-> 8, speed |-> 8,  efficiency |-> 9 ],
          low  |-> [ accuracy |-> 5, speed |-> 10, efficiency |-> 7 ] ]
        score == scores[level]
        overall == roundDiv(2 * (score.accuracy + score.speed + score.efficiency), 6)
    IN  [ accuracyScore   |-> score.accuracy,
          speedScore      |-> score.speed,
          efficiencyScore |-> score.efficiency,
          overallScore    |-> overall,
          recommendation  |-> IF overall >= 8 THEN "Highly recommended"
                              ELSE IF overall >= 6 THEN "Good choice"
                              ELSE IF overall >= 4 THEN "Consider alternatives"
                              ELSE "Not recommended" ]

getUseCases(level, calculationType) ==
    [ full |-> << "Publication-quality results", "Benchmark calculations",
                  "Method validation", "Critical decision making" >>,
      half |-> << "Routine research calculations", "Parameter optimization",
                  "Comparative studies", "Educational purposes" >>,
      low  |-> << "Initial screening", "Method testing",
                  "Proof of concept", "Large dataset generation" >> ][level]

generatePrecisionOption(level, config, calculationType, molecule, theoryLevel, software, sizeCategory) ==
    LET basisSet == basisSetHierarchy[level][sizeCategory]
        timeEstimate ==
            TimeEstimator_estimate(
                [ calculationType |-> calculationType,
                  precisionLevel  |-> level,
                  moleculeSize    |-> estimateMoleculeSize(molecule),
                  basisSet        |-> basisSet,
                  functional      |-> theoryLevel.functional,
                  software        |-> software ])
        accuracyEstimate ==
            AccuracyEstimator_estimate(
                [ calculationType |-> calculationType,
                  precisionLevel  |-> level,
                  basisSet        |-> basisSet,
                  functional      |-> theoryLevel.functional,
                  referenceLevel  |-> "full" ])
        computationalParams == getComputationalParameters(level, sizeCategory)
    IN  [ level       |-> level,
          name        |-> config.name,
          description |-> config.description,
          priority    |-> config.priority,
          color       |-> config.color,
          basisSet    |-> basisSet,
          convergence |-> convergenceCriteria[level],
          estimatedTime     |-> timeEstimate.formatted,
          timeRange         |-> timeEstimate.range,
          memoryRequirement |-> computationalParams.memory,
          cpuCores          |-> computationalParams.cores,
          diskSpace         |-> computationalParams.disk,
          accuracyVsExperiment |-> accuracyEstimate.vsExperiment,
          accuracyVsFull       |-> accuracyEstimate.vsFull,
          expectedError        |-> accuracyEstimate.expectedError,
          confidenceLevel      |-> accuracyEstimate.confidence,
          recommended |-> getRecommendation(level, calculationType, molecule),
          warnings    |-> getWarnings(level, calculationType, molecule),
          costBenefit |-> analyzeCostBenefit(level, timeEstimate, accuracyEstimate),
          useCases    |-> getUseCases(level, calculationType) ]

\* A faulty comparator: b.priority - a.priority.
insertByPriorityDescending(sorted, option) ==
    LET before == { i \in 1..Len(sorted) : sorted[i].priority >= option.priority }
        k == Cardinality(before)
    IN  SubSeq(sorted, 1, k) \o << option >> \o SubSeq(sorted, k + 1, Len(sorted))

\* One step of the stable sort by (a, b) => a.priority - b.priority: the option
\* goes behind every option whose priority is not greater.
insertByPriority(sorted, option) ==
    LET before == { i \in 1..Len(sorted) : sorted[i].priority <= option.priority }
        k == Cardinality(before)
    IN  SubSeq(sorted, 1, k) \o << option >> \o SubSeq(sorted, k + 1, Len(sorted))

RECURSIVE sortByPriority(_)
sortByPriority(options) ==
    IF Len(options) = 0 THEN << >>
    ELSE insertByPriority(sortByPriority(SubSeq(options, 1, Len(options) - 1)),
                          options[Len(options)])

\* A faulty callback: the option with the lower score is kept.
betterOptionLower(best, current) ==
    IF current.costBenefit.overallScore < best.costBenefit.overallScore
    THEN current ELSE best

\* A faulty callback: of two options with equal scores the later one is kept.
betterOptionOrLater(best, current) ==
    IF current.costBenefit.overallScore >= best.costBenefit.overallScore
    THEN current ELSE best

\* The callback of getOverallRecommendation's reduce.
betterOption(best, current) ==
    IF current.costBenefit.overallScore > best.costBenefit.overallScore
    THEN current ELSE best

\* options.slice(0, n).reduce(betterOption), without an initial value.
RECURSIVE reduceBest(_, _)
reduceBest(options, n) ==
    IF n = 1 THEN options[1]
    ELSE betterOption(reduceBest(options, n - 1), options[n])

\* The result is Thrown for an empty list (reduce without an initial value).
getOverallRecommendation(options, calculationType) ==
    IF Len(options) = 0 THEN Thrown
    ELSE
        LET bestOption == reduceBest(options, Len(options))
            others == SelectSeq(options, LAMBDA o : o.level # bestOption.level)
        IN  [ recommended  |-> bestOption.level,
              reason       |-> bestOption.name
                               \o " offers the best balance of accuracy and computational efficiency",
              alternatives |-> [ i \in 1..Len(others) |->
                                   others[i].name \o ": "
                                   \o others[i].costBenefit.recommendation ] ]

\* A faulty calculator: it times the options for the software ranked first
\* by the last rankSoftware call, when there was one.
calculatePrecisionOptionsForLastRanking(calculationType, molecule, theoryLevel, software) ==
    IF molecule.kind = "null" THEN Thrown
    ELSE
        LET moleculeSize == estimateMoleculeSize(molecule)
            sizeCategory == getSizeCategory(moleculeSize)
            ranked == IF Len(softwareOptions) > 0 THEN softwareOptions[1].name ELSE software
            options ==
                [ i \in 1..Len(precisionLevelNames) |->
                    LET level == precisionLevelNames[i]
                    IN  generatePrecisionOption(level, precisionLevels[level], calculationType,
                                                molecule, theoryLevel, ranked,
                                                sizeCategory) ]
        IN  sortByPriority(options)

\* The result is Thrown when estimateMoleculeSize throws, which it does for a
\* null molecule. (A caller that leaves software out passes 'psi4'.)
calculatePrecisionOptions(calculationType, molecule, theoryLevel, software) ==
    IF molecule.kind = "null" THEN Thrown
    ELSE
        LET moleculeSize == estimateMoleculeSize(molecule)
            sizeCategory == getSizeCategory(moleculeSize)
            options ==
                [ i \in 1..Len(precisionLevelNames) |->
                    LET level == precisionLevelNames[i]
                    IN  generatePrecisionOption(level, precisionLevels[level], calculationType,
                                                molecule, theoryLevel, software,
                                                sizeCategory) ]
        IN  sortByPriority(options)

\* ------------------------------------------------------------------ ChemCLI

\* The white space String.prototype.trim removes, as far as it is typed here.
WhiteSpace == { " ", "\t" }

RECURSIVE trimStart(_)
trimStart(s) ==
    IF Len(s) > 0 /\ SubSeq(s, 1, 1) \in WhiteSpace
    THEN trimStart(SubSeq(s, 2, Len(s))) ELSE s

RECURSIVE trimEnd(_)
trimEnd(s) ==
    IF Len(s) > 0 /\ SubSeq(s, Len(s), Len(s)) \in WhiteSpace
    THEN trimEnd(SubSeq(s, 1, Len(s) - 1)) ELSE s

trim(s) == trimEnd(trimStart(s))

\* A faulty parser: the choice is matched by its first word.
precisionLevelOfPrefix(input) ==
    LET choice == trim(toLowerCase(input))
        starts(p) == Len(choice) >= Len(p) /\ SubSeq(choice, 1, Len(p)) = p
    IN  IF starts("1") \/ starts("run full") \/ starts("full") THEN "full"
        ELSE IF starts("2") \/ starts("run half") \/ starts("half") THEN "half"
        ELSE IF starts("3") \/ starts("run low") \/ starts("low") THEN "low"
        ELSE Null

\* The head of handlePrecisionChoice: the tier the input selects, or null.
precisionLevelOf(input) ==
    LET choice == trim(toLowerCase(input))
    IN  IF choice = "1" \/ choice = "run full" \/ choice = "full" THEN "full"
        ELSE IF choice = "2" \/ choice = "run half" \/ choice = "half" THEN "half"
        ELSE IF choice = "3" \/ choice = "run low" \/ choice = "low" THEN "low"
        ELSE Null

\* agent.isCalculationRequest
calculationKeywords ==
    << "calculate", "absorption", "spectrum", "excitation", "optimize", "frequency",
       "homo", "lumo", "nmr", "uv-vis", "td-dft", "dft", "molecular orbital" >>

isCalculationRequest(userInput) ==
    \E i \in 1..Len(calculationKeywords) :
        includes(toLowerCase(userInput), calculationKeywords[i])

\* this.currentPlanData: null, or { lastInput: input }, whose lastInput
\* nothing reads and the model leaves out.
NoPlanData == [ kind |-> "null" ]
PlanData == [ kind |-> "plan" ]

\* The special commands of handleUserInput.
specialCommands == { "help", "clear", "status", "exit" }

\* ------------------------------------------------------------------ inputs

Keywords == UNION { Range(calculationTypes[t].keywords) : t \in CalculationTypeSet }

\* Words that hold no keyword, two of them with capitals.
FillerWords == { "benzene", "Calculate", "IR" }

Vocabulary == Keywords \cup FillerWords

RECURSIVE joinWords(_)
joinWords(words) ==
    IF Len(words) = 0 THEN ""
    ELSE IF Len(words) = 1 THEN words[1]
    ELSE words[1] \o " " \o joinWords(Tail(words))

\* The words that follow the first one: the first keyword of every type and a
\* filler, so that two types' keywords meet in either order.
FollowWords ==
    { calculationTypes[t].keywords[1] : t \in CalculationTypeSet } \cup { "benzene" }

\* The request of the worked example, and the one testWorkflow sends.
ExampleRequest == "calculate the absorption spectrum of benzene"

ExampleRequests == { ExampleRequest, "calculate absorption spectrum of benzene" }

\* Every request of at most MaxWords words, the empty request included: any
\* word of Vocabulary, then words of FollowWords; and the example requests.
Requests ==
    { "" } \cup ExampleRequests \cup
    { joinWords(<< first >> \o rest) :
        first \in Vocabulary,
        rest \in UNION { [1..n -> FollowWords] : n \in 0..(MaxWords - 1) } }

\* A calculation type none of the static tables knows.
UnknownType == "thermochemistry"

softwareCeilings == { softwareCapabilities[s].maxAtoms : s \in SoftwareSet }

\* The sizes the code compares against: recommendTheoryLevel's 20 and 50 and
\* each software's maxAtoms.
SizeThresholds == { 20, 50 } \cup softwareCeilings

Sizes == (0..MaxSmallSize) \cup SizeThresholds \cup { t + 1 : t \in SizeThresholds }

\* The sizes recommendTheoryLevel is tried with: none, benzene's, and both
\* sides of its two thresholds.
TheorySizes == { 0, 6, 20, 21, 50, 51 }

RECURSIVE Carbons(_)
Carbons(n) == IF n = 0 THEN "" ELSE "C" \o Carbons(n - 1)

\* Henicosane, and 1-bromoicosane: 21 heavy atoms each, of which the regular
\* expression of estimateMolecularSize counts 21 and 20.
SmilesSet == { Carbons(21), Carbons(20) \o "Br" }

MoleculeRecords ==
    { MoleculeRecord("molecule", smiles, size) : smiles \in SmilesSet, size \in TheorySizes }

MoleculeStrings ==
    { MoleculeString(t) : t \in { "c1ccccc1", Carbons(21), Carbons(51) } }

Molecules == { NoMolecule } \cup MoleculeStrings \cup MoleculeRecords

\* What processCalculationRequest and testWorkflow hand over: MoleculeHandler's
\* record, which carries no estimatedSize, and records that carry one, the
\* third of them nothing else.
PipelineMolecules ==
    { NoMolecule,
      MoleculeRecord("benzene", "c1ccccc1", 0),
      MoleculeRecord("benzene", "c1ccccc1", 6),
      MoleculeRecord("", "", 6),
      MoleculeRecord("molecule", Carbons(21), 51) }

\* A request and the molecule identified in it: every request with no molecule
\* and with benzene, the example requests with every molecule.
PipelineInputs ==
    { input \in Requests \X PipelineMolecules :
        \/ input[1] \in ExampleRequests
        \/ input[2] \in { NoMolecule, MoleculeRecord("benzene", "c1ccccc1", 6) } }

PreferredMethods ==
    UNION { Range(calculationTypes[t].methods) : t \in CalculationTypeSet }
    \cup UNION { Range(softwareCapabilities[s].strengths) : s \in SoftwareSet }

TheoryLevelsFor(calculationType) ==
    { [ functional      |-> functionalRecommendations(calculationType),
        basisSet        |-> "def2-SVP",
        methods         |-> << m >>,
        preferredMethod |-> m ] : m \in PreferredMethods }

\* The three tiers, and a precision level the tables do not know.
PrecisionLevels == PrecisionLevelSet \cup { "ultra" }

\* Functionals with and without an entry in functionalFactors and
\* functionalCorrections; the last one is on neither table.
Functionals == { "B3LYP", "CAM-B3LYP", "HF", "PBE", "xtb", "PBE0" }

\* Basis sets with and without an entry in basisSetFactors and qualityMap.
BasisSets ==
    { "STO-3G", "def2-SVP", "def2-TZVP", "def2-QZVP", "cc-pVTZ", "aug-cc-pVTZ", "6-31G*" }

\* The basis sets TimeEstimator.estimate is tried with.
TimeBasisSets == { "STO-3G", "def2-SVP", "def2-QZVP", "aug-cc-pVTZ", "6-31G*" }

\* The four packages and one that has no timing data at all.
SoftwareInputs == SoftwareSet \cup { "gaussian" }

\* Sizes on both sides of the thresholds of getSizeCategory, getRecommendation,
\* getWarnings and the estimators, in atoms.
PrecisionSizes == { 6, 9, 10, 19, 20, 29, 30, 50, 51 }

\* Benzene's twelve atoms.
BenzeneAtoms == [ i \in 1..12 |-> IF i <= 6 THEN "C" ELSE "H" ]

\* What a caller hands to calculatePrecisionOptions: records with an
\* estimatedSize, records sized by their atoms or their SMILES (sodium
\* chloride is sized by the length of its SMILES), a record with nothing to
\* size it by, and a bare name.
PrecisionMolecules ==
    { MoleculeRecord("molecule", "C", n) : n \in PrecisionSizes } \cup
    { MoleculeRecord("benzene", "c1ccccc1", 0),
      MoleculeRecord("henicosane", Carbons(21), 0),
      MoleculeRecord("sodium chloride", "[Na+].[Cl-]", 0),
      MoleculeRecord("unknown", "", 0),
      MoleculeWithAtoms("benzene", BenzeneAtoms),
      MoleculeString("benzene") }

TheoryLevel(functional, basisSet) ==
    [ functional      |-> functional,
      basisSet        |-> basisSet,
      methods         |-> << "DFT" >>,
      preferredMethod |-> "DFT" ]

\* The theory levels handed to calculatePrecisionOptions: every functional
\* with a small basis set, and one of them with a large one as well.
PrecisionTheoryLevels ==
    { TheoryLevel(f, "def2-SVP") : f \in Functionals }
    \cup { TheoryLevel("B3LYP", "def2-QZVP") }

TimeParams ==
    { [ calculationType |-> t, precisionLevel |-> p, moleculeSize |-> s,
        basisSet |-> b, functional |-> f, software |-> w ] :
        t \in CalculationTypeSet \cup { UnknownType }, p \in PrecisionLevels,
        s \in { atoms(n) : n \in { 1, 31, 51 } } \cup { 11 },
        b \in TimeBasisSets, f \in { "B3LYP", "CAM-B3LYP", "PBE0" },
        w \in SoftwareInputs }

AccuracyParams ==
    { [ calculationType |-> t, precisionLevel |-> p, basisSet |-> b, functional |-> f ] :
        t \in CalculationTypeSet \cup { UnknownType }, p \in PrecisionLevels,
        b \in BasisSets, f \in Functionals }

\* The nine phrasings handlePrecisionChoice accepts.
AcceptedChoices ==
    { "1", "run full", "full", "2", "run half", "half", "3", "run low", "low" }

\* What a user types: the accepted phrasings, some of them with capitals, near
\* misses, the special commands and a request.
TypedWords ==
    AcceptedChoices \cup
    { "Run Full", "FULL", "Half", "RUN LOW" } \cup
    { "", "0", "12", "run", "run  full", "full precision", "lower",
      "help", "Clear", "status", "EXIT", "what is DFT", ExampleRequest }

\* White space typed before and after.
LeftPadding == { "", " ", "\t" }

RightPadding == { "", " \t" }

TypedInputs ==
    { left \o word \o right :
        left \in LeftPadding, word \in TypedWords, right \in RightPadding }

\* Durations in hundredths of a minute, on both sides of every threshold and of
\* every half a unit.
Durations ==
    { 0, 1, 50, 99, 100, 101, 149, 150, 5940, 5949, 5950, 5999, 6000, 6001, 6049, 6050,
      9000, 11949, 11950, 11999, 12000, 143940, 143950, 143999, 144000, 144001,
      150000, 287999, 288000, 300000 }

\* What agent.process comes back with: a plan that lists the precision options,
\* another answer, a streamed answer, or an exception.
AgentOutcomes == { "options", "answer", "stream", "error" }

\* ----------------------------------------------------------------- actions

Init ==
    /\ pc = "idle"
    /\ userRequest = ""
    /\ moleculeInfo = NoMolecule
    /\ researchResult = Undefined
    /\ executionResult = Undefined
    /\ theoryCalls = << >>
    /\ softwareOptions = << >>
    /\ precisionOptions = << >>
    /\ precisionCall = Undefined
    /\ firstOptions = << >>
    /\ recommendation = Undefined
    /\ timeCall = Undefined
    /\ accuracyCall = Undefined
    /\ cliPc = "prompt"
    /\ cliInput = ""
    /\ awaitingPrecisionChoice = FALSE
    /\ currentPlanData = NoPlanData
    /\ conversationHistory = << >>
    /\ selectedLevel = Null
    /\ routed = ""

\* Step 2 of processCalculationRequest: researchPlanner.analyze(userInput, moleculeInfo).
Analyze(request, molecule) ==
    /\ pc = "idle"
    /\ pc' = "analyzed"
    /\ userRequest' = request
    /\ moleculeInfo' = molecule
    /\ researchResult' = analyze(request, molecule)
    /\ executionResult' = Undefined
    /\ softwareOptions' = << >>
    /\ UNCHANGED theoryCalls
    /\ UNCHANGED << precisionVars, estimatorVars, cliVars >>

\* if (!researchResult.success) return "I couldn't determine ..."
Reject ==
    /\ pc = "analyzed"
    /\ ~researchResult.success
    /\ pc' = "rejected"
    /\ UNCHANGED << userRequest, moleculeInfo, researchResult, executionResult,
                    theoryCalls, softwareOptions >>
    /\ UNCHANGED << precisionVars, estimatorVars, cliVars >>

\* Step 3: executionPlanner.plan(researchResult, moleculeInfo).
Plan ==
    /\ pc = "analyzed"
    /\ researchResult.success
    /\ pc' = "planned"
    /\ softwareOptions' = rankSoftware(researchResult.calculationType,
                                       researchResult.theoryLevel, moleculeInfo)
    /\ executionResult' = plan(researchResult, moleculeInfo)
    /\ UNCHANGED << userRequest, moleculeInfo, researchResult, theoryCalls >>
    /\ UNCHANGED << precisionVars, estimatorVars, cliVars >>

\* A client calls plan with a research plan of its own.
PlanFor(calculationType, theoryLevel, molecule) ==
    /\ pc = "idle"
    /\ pc' = "planned"
    /\ moleculeInfo' = molecule
    /\ researchResult' = [ success         |-> TRUE,
                           calculationType |-> calculationType,
                           theoryLevel     |-> theoryLevel ]
    /\ softwareOptions' = rankSoftware(calculationType, theoryLevel, molecule)
    /\ executionResult' = plan(researchResult', molecule)
    /\ UNCHANGED << userRequest, theoryCalls >>
    /\ UNCHANGED << precisionVars, estimatorVars, cliVars >>

\* The client's function returns; its locals are gone.
Return ==
    /\ pc \in { "rejected", "planned" }
    /\ pc' = "idle"
    /\ userRequest' = ""
    /\ moleculeInfo' = NoMolecule
    /\ researchResult' = Undefined
    /\ executionResult' = Undefined
    /\ softwareOptions' = << >>
    /\ UNCHANGED theoryCalls
    /\ UNCHANGED << precisionVars, estimatorVars, cliVars >>

\* A client calls rankSoftware.
RankSoftware(calculationType, theoryLevel, molecule) ==
    /\ softwareOptions' = rankSoftware(calculationType, theoryLevel, molecule)
    /\ UNCHANGED << pc, userRequest, moleculeInfo, researchResult, executionResult, theoryCalls >>
    /\ UNCHANGED << precisionVars, estimatorVars, cliVars >>

\* A client calls recommendTheoryLevel; the last two calls are kept.
RecommendTheoryLevel(calculationType, molecule) ==
    /\ theoryCalls' =
         (IF Len(theoryCalls) = 0 THEN << >> ELSE << theoryCalls[Len(theoryCalls)] >>)
         \o << [ calculationType |-> calculationType,
                 molecule        |-> molecule,
                 result          |-> recommendTheoryLevel(calculationType, molecule) ] >>
    /\ UNCHANGED << pc, userRequest, moleculeInfo, researchResult, executionResult, softwareOptions >>
    /\ UNCHANGED << precisionVars, estimatorVars, cliVars >>

\* Step 4: precisionCalculator.calculatePrecisionOptions(...); a throw is
\* caught by processCalculationRequest.
CalculatePrecision ==
    /\ pc = "planned"
    /\ executionResult # Thrown
    /\ IF moleculeInfo.kind = "null"
       THEN /\ pc' = "failed"
            /\ precisionOptions' = << >>
       ELSE /\ pc' = "presented"
            /\ precisionOptions' =
                 calculatePrecisionOptions(researchResult.calculationType, moleculeInfo,
                                           researchResult.theoryLevel,
                                           toLowerCase(executionResult.selectedSoftware.name))
    /\ UNCHANGED << userRequest, moleculeInfo, researchResult, executionResult,
                    theoryCalls, softwareOptions >>
    /\ UNCHANGED << precisionCall, firstOptions, recommendation, estimatorVars, cliVars >>

\* processCalculationRequest returns its text; its locals are gone.
Respond ==
    /\ pc \in { "rejected", "presented", "failed" }
    /\ pc' = "idle"
    /\ userRequest' = ""
    /\ moleculeInfo' = NoMolecule
    /\ researchResult' = Undefined
    /\ executionResult' = Undefined
    /\ softwareOptions' = << >>
    /\ precisionOptions' = << >>
    /\ UNCHANGED << theoryCalls, precisionCall, firstOptions, recommendation,
                    estimatorVars, cliVars >>

\* A client calls calculatePrecisionOptions.
CalculatePrecisionOptions(calculationType, molecule, theoryLevel, software) ==
    /\ pc = "idle"
    /\ pc' = "calculated"
    /\ precisionCall' = [ calculationType |-> calculationType,
                          moleculeInfo    |-> molecule,
                          theoryLevel     |-> theoryLevel,
                          software        |-> software ]
    /\ precisionOptions' =
         calculatePrecisionOptions(calculationType, molecule, theoryLevel, software)
    /\ UNCHANGED << firstOptions, recommendation, plannerData, estimatorVars, cliVars >>

\* Between two calls the client ranks the software for some other calculation
\* and asks the two estimators about it.
CallsBetween(calculationType, timeParams, accuracyParams) ==
    /\ pc = "calculated"
    /\ softwareOptions = << >>
    /\ softwareOptions' =
         rankSoftware(calculationType, recommendTheoryLevel(calculationType, NoMolecule),
                      NoMolecule)
    /\ timeCall' = [ params |-> timeParams,
                     result |-> TimeEstimator_estimate(timeParams) ]
    /\ accuracyCall' =
         [ params       |-> accuracyParams,
           baseAccuracy |-> getBaseAccuracy(accuracyParams.calculationType,
                                            accuracyParams.functional,
                                            accuracyParams.basisSet),
           result       |-> AccuracyEstimator_estimate(accuracyParams) ]
    /\ UNCHANGED << pc, userRequest, moleculeInfo, researchResult, executionResult,
                    theoryCalls, precisionVars, cliVars >>

\* The client calls calculatePrecisionOptions again with the arguments of its
\* first call and keeps the first list.
CalculateAgain ==
    /\ pc = "calculated"
    /\ pc' = "repeated"
    /\ firstOptions' = precisionOptions
    /\ precisionOptions' =
         calculatePrecisionOptions(precisionCall.calculationType, precisionCall.moleculeInfo,
                                   precisionCall.theoryLevel, precisionCall.software)
    /\ UNCHANGED << precisionCall, recommendation, plannerData, estimatorVars, cliVars >>

\* The client asks which of the options it holds is recommended.
GetOverallRecommendation ==
    /\ pc = "calculated"
    /\ pc' = "recommended"
    /\ recommendation' =
         getOverallRecommendation(precisionOptions, precisionCall.calculationType)
    /\ UNCHANGED << precisionOptions, precisionCall, firstOptions >>
    /\ UNCHANGED << plannerData, estimatorVars, cliVars >>

\* The client is done with the lists.
ReturnOptions ==
    /\ pc \in { "calculated", "repeated", "recommended" }
    /\ pc' = "idle"
    /\ precisionCall' = Undefined
    /\ precisionOptions' = << >>
    /\ firstOptions' = << >>
    /\ recommendation' = Undefined
    /\ softwareOptions' = << >>
    /\ timeCall' = Undefined
    /\ accuracyCall' = Undefined
    /\ UNCHANGED << userRequest, moleculeInfo, researchResult, executionResult,
                    theoryCalls, cliVars >>

\* A client calls TimeEstimator.estimate.
EstimateTime(calculationParams) ==
    /\ pc = "idle"
    /\ pc' = "estimated"
    /\ timeCall' = [ params |-> calculationParams,
                     result |-> TimeEstimator_estimate(calculationParams) ]
    /\ UNCHANGED << accuracyCall, plannerData, precisionVars, cliVars >>

\* A client calls AccuracyEstimator.estimate; baseAccuracy is the local of
\* that name.
EstimateAccuracy(calculationParams) ==
    /\ pc = "idle"
    /\ pc' = "estimated"
    /\ accuracyCall' =
         [ params       |-> calculationParams,
           baseAccuracy |-> getBaseAccuracy(calculationParams.calculationType,
                                            calculationParams.functional,
                                            calculationParams.basisSet),
           result       |-> AccuracyEstimator_estimate(calculationParams) ]
    /\ UNCHANGED << timeCall, plannerData, precisionVars, cliVars >>

\* A client calls TimeEstimator.formatDuration.
FormatDuration(minutes) ==
    /\ pc = "idle"
    /\ pc' = "formatted"
    /\ timeCall' = [ params |-> [ minutes |-> minutes ],
                     result |-> [ formatted |-> formatDuration(minutes) ] ]
    /\ UNCHANGED << accuracyCall, plannerData, precisionVars, cliVars >>

\* The client is done with the estimate.
ReturnEstimate ==
    /\ pc \in { "estimated", "formatted" }
    /\ pc' = "idle"
    /\ timeCall' = Undefined
    /\ accuracyCall' = Undefined
    /\ UNCHANGED << plannerData, precisionVars, cliVars >>

\* readline hands a line to handleUserInput.
ReadLine(input) ==
    /\ cliPc = "prompt"
    /\ cliPc' = "typed"
    /\ cliInput' = input
    /\ Len(conversationHistory) < MaxHistory
    /\ UNCHANGED << awaitingPrecisionChoice, currentPlanData, conversationHistory,
                    selectedLevel, routed >>
    /\ UNCHANGED << pc, plannerData, precisionVars, estimatorVars >>

\* A faulty handler: currentPlanData is cleared only when the generation went
\* through.
HandlePrecisionChoiceKeepsPlan(input, generated) ==
    LET level == precisionLevelOf(input)
    IN  /\ selectedLevel' = level
        /\ routed' = "precisionChoice"
        /\ IF level = Null
           THEN UNCHANGED << awaitingPrecisionChoice, currentPlanData, conversationHistory >>
           ELSE /\ awaitingPrecisionChoice' = FALSE
                /\ conversationHistory' =
                     IF generated
                     THEN conversationHistory \o << "user", "assistant" >>
                     ELSE conversationHistory
                /\ currentPlanData' = IF generated THEN NoPlanData ELSE currentPlanData

\* handlePrecisionChoice(input): generated tells whether processPrecisionChoice
\* and the display of its result went through. The history is kept by roles.
HandlePrecisionChoice(input, generated) ==
    LET level == precisionLevelOf(input)
    IN  /\ selectedLevel' = level
        /\ routed' = "precisionChoice"
        /\ IF level = Null
           THEN UNCHANGED << awaitingPrecisionChoice, currentPlanData, conversationHistory >>
           ELSE /\ awaitingPrecisionChoice' = FALSE
                /\ conversationHistory' =
                     IF generated
                     THEN conversationHistory \o << "user", "assistant" >>
                     ELSE conversationHistory
                /\ currentPlanData' = NoPlanData

\* A faulty dispatch: the special commands are looked at before the pending
\* precision choice.
HandleUserInputCommandsFirst(outcome, generated) ==
    /\ cliPc = "typed"
    /\ cliPc' = "handled"
    /\ IF trim(cliInput) = ""
       THEN /\ routed' = "ignored"
            /\ UNCHANGED << awaitingPrecisionChoice, currentPlanData,
                            conversationHistory, selectedLevel >>
       ELSE IF toLowerCase(cliInput) \in specialCommands
       THEN /\ routed' = toLowerCase(cliInput)
            /\ UNCHANGED << awaitingPrecisionChoice, currentPlanData,
                            conversationHistory, selectedLevel >>
       ELSE IF awaitingPrecisionChoice
       THEN HandlePrecisionChoice(cliInput, generated)
       ELSE /\ routed' = "agent"
            /\ awaitingPrecisionChoice' =
                 IF outcome = "options" THEN TRUE ELSE awaitingPrecisionChoice
            /\ currentPlanData' =
                 IF outcome = "options" THEN PlanData ELSE currentPlanData
            /\ conversationHistory' =
                 conversationHistory
                 \o (IF outcome = "error" THEN << "user" >> ELSE << "user", "assistant" >>)
            /\ UNCHANGED selectedLevel
    /\ UNCHANGED cliInput
    /\ UNCHANGED << pc, plannerData, precisionVars, estimatorVars >>

\* handleUserInput(input), with what the agent comes back with when it is asked.
HandleUserInput(outcome, generated) ==
    /\ cliPc = "typed"
    /\ cliPc' = "handled"
    /\ IF trim(cliInput) = ""
       THEN /\ routed' = "ignored"
            /\ UNCHANGED << awaitingPrecisionChoice, currentPlanData,
                            conversationHistory, selectedLevel >>
       ELSE IF awaitingPrecisionChoice
       THEN HandlePrecisionChoice(cliInput, generated)
       ELSE IF toLowerCase(cliInput) \in specialCommands
       THEN /\ routed' = toLowerCase(cliInput)
            /\ UNCHANGED << awaitingPrecisionChoice, currentPlanData,
                            conversationHistory, selectedLevel >>
       ELSE IF ~isCalculationRequest(cliInput) /\ outcome = "stream"
       THEN /\ routed' = "stream"
            /\ conversationHistory' = conversationHistory \o << "user", "assistant" >>
            /\ UNCHANGED << awaitingPrecisionChoice, currentPlanData, selectedLevel >>
       ELSE /\ routed' = "agent"
            /\ awaitingPrecisionChoice' =
                 IF outcome = "options" THEN TRUE ELSE awaitingPrecisionChoice
            /\ currentPlanData' =
                 IF outcome = "options" THEN PlanData ELSE currentPlanData
            /\ conversationHistory' =
                 conversationHistory
                 \o (IF outcome = "error" THEN << "user" >> ELSE << "user", "assistant" >>)
            /\ UNCHANGED selectedLevel
    /\ UNCHANGED cliInput
    /\ UNCHANGED << pc, plannerData, precisionVars, estimatorVars >>

\* The prompt is shown again.
Prompt ==
    /\ cliPc = "handled"
    /\ cliPc' = "prompt"
    /\ cliInput' = ""
    /\ selectedLevel' = Null
    /\ routed' = ""
    /\ UNCHANGED << awaitingPrecisionChoice, currentPlanData, conversationHistory >>
    /\ UNCHANGED << pc, plannerData, precisionVars, estimatorVars >>

\* The pipeline of LLMAgent.processCalculationRequest.
Next ==
    \/ \E input \in PipelineInputs : Analyze(input[1], input[2])
    \/ Reject
    \/ Plan
    \/ CalculatePrecision
    \/ Respond

Spec == Init /\ [][Next]_vars

\* Direct calls of the theory-level recommendation, with other calls in between.
NextTheory ==
    \/ \E calculationType \in CalculationTypeSet, molecule \in Molecules :
          RecommendTheoryLevel(calculationType, molecule)
    \/ \E calculationType \in { "absorption_spectrum", "nmr_prediction" } :
          RankSoftware(calculationType, recommendTheoryLevel(calculationType, NoMolecule),
                       NoMolecule)

SpecTheory == Init /\ [][NextTheory]_vars

\* Direct calls of the execution planner over every type, method and size.
NextExec ==
    \/ \E calculationType \in CalculationTypeSet \cup { UnknownType },
          molecule \in { NoMolecule } \cup { MoleculeRecord("molecule", "C", n) : n \in Sizes } :
          \E theoryLevel \in TheoryLevelsFor(calculationType) :
             PlanFor(calculationType, theoryLevel, molecule)
    \/ Return

SpecExec == Init /\ [][NextExec]_vars

\* Direct calls of calculatePrecisionOptions, each of them made a second time
\* after calls of the planner and the estimators.
NextPrecision ==
    \/ \E calculationType \in CalculationTypeSet \cup { UnknownType },
          molecule \in PrecisionMolecules,
          theoryLevel \in PrecisionTheoryLevels,
          software \in SoftwareInputs :
          CalculatePrecisionOptions(calculationType, molecule, theoryLevel, software)
    \/ CallsBetween(
          "geometry_optimization",
          [ calculationType |-> "nmr_prediction", precisionLevel |-> "full",
            moleculeSize |-> atoms(51), basisSet |-> "aug-cc-pVTZ",
            functional |-> "wB97XD", software |-> "orca" ],
          [ calculationType |-> "homo_lumo", precisionLevel |-> "low",
            basisSet |-> "STO-3G", functional |-> "HF" ])
    \/ CalculateAgain
    \/ GetOverallRecommendation
    \/ ReturnOptions

SpecPrecision == Init /\ [][NextPrecision]_vars

\* Direct calls of the two estimators.
NextEstimate ==
    \/ \E calculationParams \in TimeParams : EstimateTime(calculationParams)
    \/ \E calculationParams \in AccuracyParams : EstimateAccuracy(calculationParams)
    \/ \E minutes \in Durations : FormatDuration(minutes)
    \/ ReturnEstimate

SpecEstimate == Init /\ [][NextEstimate]_vars

\* ChemCLI's input loop.
NextCli ==
    \/ \E input \in TypedInputs : ReadLine(input)
    \/ \E outcome \in AgentOutcomes, generated \in BOOLEAN :
          HandleUserInput(outcome, generated)
    \/ Prompt

SpecCli == Init /\ [][NextCli]_vars

\* ------------------------------------------------------------- properties

AnalyzeDone == pc \in { "analyzed", "rejected", "planned" } /\ researchResult # Undefined

\* The types, by position, that have a keyword occurring in the request.
matchingTypes(request) ==
    { i \in 1..Len(calculationTypeNames) :
        \E k \in Range(calculationTypes[calculationTypeNames[i]].keywords) :
            includes(request, k) }

Min(S) == CHOOSE x \in S : \A y \in S : x <= y

\* C1: every type's keyword list is non-empty, and a request that consists of
\* one keyword of a type is classified as exactly that type.
C1_KeywordClassifiesAsItsType ==
    \A t \in CalculationTypeSet :
        /\ Len(calculationTypes[t].keywords) > 0
        /\ \A k \in Range(calculationTypes[t].keywords) :
              (AnalyzeDone /\ userRequest = k)
                  => (researchResult.success /\ researchResult.calculationType = t)

\* C2: analyze classifies the request as the first type, in the enumeration
\* order, one of whose keywords occurs in the lowercased request, and fails to
\* classify exactly when no keyword of any type occurs in it.
C2_FirstMatchingTypeWins ==
    AnalyzeDone =>
        LET matching == matchingTypes(toLowerCase(userRequest))
        IN  IF matching = {}
            THEN ~researchResult.success
            ELSE /\ researchResult.success
                 /\ researchResult.calculationType = calculationTypeNames[Min(matching)]

\* A request in which keywords of several types occur was classified, and as a
\* type that is not the one whose keyword comes first in the text.
C2_Witness ==
    /\ AnalyzeDone
    /\ userRequest = "energy absorption"
    /\ Cardinality(matchingTypes(toLowerCase(userRequest))) >= 3
    /\ researchResult.calculationType = "absorption_spectrum"

\* C3: when no keyword occurs in the request, analyze returns a soft failure:
\* success false, an error text and one suggestion per calculation type, in
\* order, and neither calculationType nor theoryLevel.
C3_SoftFailureWithSuggestions ==
    (AnalyzeDone /\ matchingTypes(toLowerCase(userRequest)) = {}) =>
        /\ researchResult # Thrown
        /\ DOMAIN researchResult = { "success", "error", "suggestions" }
        /\ researchResult.success = FALSE
        /\ Len(researchResult.suggestions) = 7
        /\ \A i \in 1..7 :
              /\ researchResult.suggestions[i].type = calculationTypeNames[i]
              /\ Len(researchResult.suggestions[i].keywords) = 3

\* A request without any keyword was analyzed and turned down.
C3_Witness ==
    /\ pc = "rejected"
    /\ userRequest = "Calculate benzene"
    /\ ~researchResult.success

\* The basis set the three-bucket step function gives a size.
basisSetOfSize(estimatedSize) ==
    IF estimatedSize > 50 THEN "def2-SVP"
    ELSE IF estimatedSize > 20 THEN "def2-TZVP"
    ELSE "def2-QZVP"

\* C4: for a MoleculeInfo record the basis set recommendTheoryLevel chooses is
\* the step function of the record's estimatedSize: def2-SVP above 50,
\* def2-TZVP above 20 and up to 50, def2-QZVP up to 20.
C4_BasisSetStepsWithEstimatedSize ==
    \A i \in 1..Len(theoryCalls) :
        theoryCalls[i].molecule.kind = "record" =>
            theoryCalls[i].result.basisSet = basisSetOfSize(theoryCalls[i].molecule.estimatedSize)

\* C5: two recommendTheoryLevel calls with the same calculation type and
\* MoleculeInfo records of equal estimatedSize return the same functional,
\* basis set, methods and preferred method, whatever else the records hold.
C5_SameTypeAndSizeSameTheoryLevel ==
    \A i, j \in 1..Len(theoryCalls) :
        ( /\ theoryCalls[i].calculationType = theoryCalls[j].calculationType
          /\ theoryCalls[i].molecule.kind = "record"
          /\ theoryCalls[j].molecule.kind = "record"
          /\ theoryCalls[i].molecule.estimatedSize = theoryCalls[j].molecule.estimatedSize )
        => /\ theoryCalls[i].result.functional = theoryCalls[j].result.functional
           /\ theoryCalls[i].result.basisSet = theoryCalls[j].result.basisSet
           /\ theoryCalls[i].result.methods = theoryCalls[j].result.methods
           /\ theoryCalls[i].result.preferredMethod = theoryCalls[j].result.preferredMethod

\* Two calls for the same type with different records of equal estimatedSize,
\* and a rankSoftware call besides.
C5_Witness ==
    /\ Len(theoryCalls) = 2
    /\ Len(softwareOptions) > 0
    /\ theoryCalls[1].calculationType = theoryCalls[2].calculationType
    /\ theoryCalls[1].molecule.kind = "record"
    /\ theoryCalls[2].molecule.kind = "record"
    /\ theoryCalls[1].molecule.estimatedSize = 21
    /\ theoryCalls[2].molecule.estimatedSize = 21
    /\ theoryCalls[1].molecule.smiles # theoryCalls[2].molecule.smiles

\* C6: the ranking holds each of the four software packages exactly once and
\* its scores never increase from one entry to the next.
C6_RankingIsSortedPermutation ==
    Len(softwareOptions) > 0 =>
        /\ Len(softwareOptions) = 4
        /\ { softwareOptions[i].name : i \in 1..4 } = SoftwareSet
        /\ \A i \in 1..3 : softwareOptions[i].score >= softwareOptions[i + 1].score

\* A ranking that the sort had to reorder: the first package of the table is
\* last, with a score below the top one.
C6_Witness ==
    /\ pc = "planned"
    /\ Len(softwareOptions) = 4
    /\ softwareOptions[4].name = "psi4"
    /\ softwareOptions[1].score > softwareOptions[4].score

PlannedKnownType ==
    /\ pc = "planned"
    /\ researchResult.calculationType \in CalculationTypeSet

supports(name, calculationType) ==
    softwareCapabilities[name].calculationTypes[calculationType].supported

\* C7: for each of the seven types and every size, a software that does not
\* support the type scores exactly 0 and the selected software supports it.
C7_UnsupportedScoresZeroAndIsNotSelected ==
    PlannedKnownType =>
        /\ \A i \in 1..Len(softwareOptions) :
              ~supports(softwareOptions[i].name, researchResult.calculationType)
                  => softwareOptions[i].score = 0
        /\ executionResult # Thrown
        /\ supports(executionResult.selectedSoftware.name, researchResult.calculationType)

\* A plan for a molecule above every software's ceiling and a type one of the
\* packages does not support.
C7_Witness ==
    /\ PlannedKnownType
    /\ moleculeInfo.kind = "record"
    /\ \A s \in SoftwareSet : moleculeInfo.estimatedSize > softwareCapabilities[s].maxAtoms
    /\ \E s \in SoftwareSet : ~supports(s, researchResult.calculationType)
    /\ supports(executionResult.selectedSoftware.name, researchResult.calculationType)

\* The size term as the scoring rule words it, for a size.
claimedSizeTerm(name, size) ==
    LET software == softwareCapabilities[name]
    IN  IF size <= software.maxAtoms
        THEN 15 + (IF size > 50 /\ software.memoryEfficient THEN 10 ELSE 0)
        ELSE 0 - 20

\* The additive score of a supported software, around a given size term.
claimedScore(name, calculationType, preferredMethod, sizeTerm) ==
    LET software == softwareCapabilities[name]
        support == software.calculationTypes[calculationType]
    IN    (IF support.recommended THEN 30 ELSE 10)
        + (CASE support.performance = "excellent" -> 25
             [] support.performance = "good"      -> 20
             [] support.performance = "fair"      -> 10
             [] support.performance = "poor"      -> 0)
        + (IF \/ preferredMethod \in Range(software.strengths)
              \/ calculationType \in Range(software.strengths) THEN 20 ELSE 0)
        + sizeTerm
        + (IF software.type = "open_source" THEN 15 ELSE 0)
        + (IF ~includes(software.installCommand, "Manual") THEN 10 ELSE 0)

\* C8, as stated: a supported software's score is the additive sum with the
\* size term applied to every molecule size.
C8_ScoreIsSumForEverySize ==
    (PlannedKnownType /\ moleculeInfo.kind = "record") =>
        \A i \in 1..Len(softwareOptions) :
            supports(softwareOptions[i].name, researchResult.calculationType) =>
                softwareOptions[i].score =
                    claimedScore(softwareOptions[i].name, researchResult.calculationType,
                                 researchResult.theoryLevel.preferredMethod,
                                 claimedSizeTerm(softwareOptions[i].name,
                                                 moleculeInfo.estimatedSize))

\* C8, amended: the size term applies to a positive molecule size; without a
\* molecule, or with an estimatedSize of 0 (or none), the size term is 0.
C8_ScoreIsSumForPositiveSize ==
    PlannedKnownType =>
        \A i \in 1..Len(softwareOptions) :
            supports(softwareOptions[i].name, researchResult.calculationType) =>
                softwareOptions[i].score =
                    claimedScore(softwareOptions[i].name, researchResult.calculationType,
                                 researchResult.theoryLevel.preferredMethod,
                                 IF moleculeInfo.kind = "record" /\ moleculeInfo.estimatedSize > 0
                                 THEN claimedSizeTerm(softwareOptions[i].name,
                                                      moleculeInfo.estimatedSize)
                                 ELSE 0)

\* A ranking for a size of 201: psi4 and pyscf are above their ceilings, orca
\* and xtb get the memory-efficiency bonus.
C8_Witness ==
    /\ PlannedKnownType
    /\ moleculeInfo.kind = "record"
    /\ moleculeInfo.estimatedSize = 201
    /\ \A s \in SoftwareSet : supports(s, researchResult.calculationType)
    /\ researchResult.theoryLevel.preferredMethod = "TD-DFT"

\* The score the software gets for the same request with a molecule of the
\* given size.
scoreAtSize(name, size) ==
    calculateSoftwareScore(softwareCapabilities[name], researchResult.calculationType,
                           researchResult.theoryLevel,
                           MoleculeRecord("molecule", "C", size)).total

overCeiling(name) ==
    /\ moleculeInfo.kind = "record"
    /\ moleculeInfo.estimatedSize > softwareCapabilities[name].maxAtoms

\* C9, as stated: above its ceiling a supported software stays in the ranking,
\* nothing is raised, and its score is 35 below its score for any size of at
\* most 50 that fits under the ceiling.
C9_PenaltyAgainstAnySmallSize ==
    PlannedKnownType =>
        \A s \in SoftwareSet :
            (overCeiling(s) /\ supports(s, researchResult.calculationType)) =>
                /\ executionResult # Thrown
                /\ \E i \in 1..Len(softwareOptions) :
                      /\ softwareOptions[i].name = s
                      /\ \A small \in 0..50 :
                            small <= softwareCapabilities[s].maxAtoms =>
                                softwareOptions[i].score = scoreAtSize(s, small) - 35

\* C9, amended: the same, against any positive size of at most 50 that fits
\* under the ceiling.
C9_PenaltyAgainstPositiveSmallSize ==
    PlannedKnownType =>
        \A s \in SoftwareSet :
            (overCeiling(s) /\ supports(s, researchResult.calculationType)) =>
                /\ executionResult # Thrown
                /\ \E i \in 1..Len(softwareOptions) :
                      /\ softwareOptions[i].name = s
                      /\ \A small \in 1..50 :
                            small <= softwareCapabilities[s].maxAtoms =>
                                softwareOptions[i].score = scoreAtSize(s, small) - 35

\* The selected software is itself above its ceiling.
C9_Witness ==
    /\ PlannedKnownType
    /\ executionResult # Thrown
    /\ overCeiling(executionResult.selectedSoftware.name)
    /\ supports(executionResult.selectedSoftware.name, researchResult.calculationType)

\* C10: plan returns the first entry of the ranking as selectedSoftware and
\* the second and third, in order, as alternativeSoftware; the selected one is
\* not among the alternatives and the fourth is not surfaced at all.
C10_SelectedFirstAlternativesSecondThird ==
    (pc = "planned" /\ executionResult # Thrown) =>
        /\ executionResult.selectedSoftware = softwareOptions[1]
        /\ executionResult.alternativeSoftware = << softwareOptions[2], softwareOptions[3] >>
        /\ \A i \in 1..Len(executionResult.alternativeSoftware) :
              executionResult.alternativeSoftware[i].name
                  \notin { executionResult.selectedSoftware.name, softwareOptions[4].name }
        /\ executionResult.selectedSoftware.name # softwareOptions[4].name
        /\ Len(executionResult.executionPlan.alternativeSoftware) = 2
        /\ \A i \in 1..2 :
              executionResult.executionPlan.alternativeSoftware[i].name
                  = softwareCapabilities[softwareOptions[i + 1].name].name

\* A plan whose four scores all differ.
C10_Witness ==
    /\ pc = "planned"
    /\ executionResult # Thrown
    /\ \A i \in 1..3 : softwareOptions[i].score > softwareOptions[i + 1].score

\* ------------------------------------------- properties of the precision tiers

RespondedTo(request) ==
    /\ pc \in { "rejected", "failed", "presented" }
    /\ userRequest = request

\* The place of a software in the ranking, 0 when it is not ranked.
rankOf(name) ==
    IF \E i \in 1..Len(softwareOptions) : softwareOptions[i].name = name
    THEN CHOOSE i \in 1..Len(softwareOptions) : softwareOptions[i].name = name
    ELSE 0

\* C11: the request "calculate the absorption spectrum of benzene" with a
\* molecule of estimatedSize 6 is answered with the three tiers: the type is
\* absorption_spectrum, the functional CAM-B3LYP, psi4 and orca are ranked
\* before xtb, whose score is 0, and the half tier uses def2-TZVP.
C11_WorkedExample ==
    ( /\ RespondedTo(ExampleRequest)
      /\ moleculeInfo.kind = "record"
      /\ moleculeInfo.estimatedSize = 6 ) =>
        /\ pc = "presented"
        /\ researchResult.calculationType = "absorption_spectrum"
        /\ researchResult.theoryLevel.functional = "CAM-B3LYP"
        /\ rankOf("psi4") > 0
        /\ rankOf("orca") > 0
        /\ rankOf("xtb") > 0
        /\ rankOf("psi4") < rankOf("xtb")
        /\ rankOf("orca") < rankOf("xtb")
        /\ softwareOptions[rankOf("xtb")].score = 0
        /\ Len(precisionOptions) = 3
        /\ \E i \in 1..3 : precisionOptions[i].level = "half"
        /\ \A i \in 1..3 : precisionOptions[i].level = "half" =>
                              precisionOptions[i].basisSet = "def2-TZVP"

\* The example has been answered for the molecule that is nothing but
\* {estimatedSize: 6}.
C11_Witness ==
    /\ pc = "presented"
    /\ userRequest = ExampleRequest
    /\ moleculeInfo = MoleculeRecord("", "", 6)
    /\ precisionOptions[2].basisSet = "def2-TZVP"

\* A client's calculatePrecisionOptions call has returned.
OptionsReturned == pc \in { "calculated", "repeated" }

\* C12: calculatePrecisionOptions returns three options, the tiers full, half
\* and low in this order, with the priorities 1, 2 and 3.
C12_ThreeTiersInOrder ==
    OptionsReturned =>
        /\ Len(precisionOptions) = 3
        /\ [ i \in 1..3 |-> precisionOptions[i].level ] = << "full", "half", "low" >>
        /\ [ i \in 1..3 |-> precisionOptions[i].priority ] = << 1, 2, 3 >>

\* The three tiers have come back for a type and a software off every table.
C12_Witness ==
    /\ pc = "calculated"
    /\ precisionCall.calculationType = UnknownType
    /\ precisionCall.software = "gaussian"
    /\ precisionCall.moleculeInfo.kind = "string"
    /\ Len(precisionOptions) = 3
    /\ precisionOptions[3].level = "low"

\* The size category the specification gives for a size in thirds of an atom.
claimedSizeCategory(size) ==
    IF size < atoms(10) THEN "small"
    ELSE IF size >= atoms(10) /\ size < atoms(30) THEN "medium"
    ELSE "large"

tierEstimate(level) ==
    TimeEstimator_estimate(
        [ calculationType |-> precisionCall.calculationType,
          precisionLevel  |-> level,
          moleculeSize    |-> estimateMoleculeSize(precisionCall.moleculeInfo),
          basisSet        |-> CHOOSE b \in { precisionOptions[i].basisSet : i \in 1..3 } :
                                 \E i \in 1..3 : /\ precisionOptions[i].level = level
                                                 /\ precisionOptions[i].basisSet = b,
          functional      |-> precisionCall.theoryLevel.functional,
          software        |-> precisionCall.software ])

\* C14: within one result the estimated minutes do not increase from full to
\* half to low, and neither do the two ends of the time range.
C14_TimeDoesNotIncreaseDownTheTiers ==
    OptionsReturned =>
        /\ tierEstimate("full").minutes >= tierEstimate("half").minutes
        /\ tierEstimate("half").minutes >= tierEstimate("low").minutes
        /\ \A i \in 1..2 :
              /\ precisionOptions[i].timeRange = tierEstimate(precisionOptions[i].level).range
              /\ precisionOptions[i].timeRange.min >= precisionOptions[i + 1].timeRange.min
              /\ precisionOptions[i].timeRange.max >= precisionOptions[i + 1].timeRange.max

\* A pair with timing data, where the minutes fall strictly tier by tier.
C14_Witness ==
    /\ pc = "calculated"
    /\ precisionCall.calculationType = "absorption_spectrum"
    /\ precisionCall.software = "psi4"
    /\ tierEstimate("full").minutes > tierEstimate("half").minutes
    /\ tierEstimate("half").minutes > tierEstimate("low").minutes
    /\ tierEstimate("low").minutes > 0

\* A client's AccuracyEstimator.estimate call has returned or thrown.
AccuracyEstimated == pc = "estimated" /\ accuracyCall # Undefined

\* C15: the confidence percentage of an accuracy estimate is at least 20 and at
\* most 95.
C15_ConfidenceWithin20And95 ==
    (AccuracyEstimated /\ accuracyCall.result # Thrown) =>
        /\ accuracyCall.result.confidence.percentage >= 20
        /\ accuracyCall.result.confidence.percentage <= 95

\* The adjustments add up to 115 and the estimate says 95.
C15_Witness ==
    /\ AccuracyEstimated
    /\ accuracyCall.params.functional = "B3LYP"
    /\ accuracyCall.params.basisSet = "def2-TZVP"
    /\ accuracyCall.params.calculationType = "geometry_optimization"
    /\ accuracyCall.params.precisionLevel = "full"
    /\ accuracyCall.result.confidence.percentage = 95

\* A client's TimeEstimator.estimate call has returned.
TimeEstimated == pc = "estimated" /\ timeCall # Undefined

\* The benchmark table of TimeEstimator has an entry for the pair.
hasTimingData(calculationType, software) ==
    /\ calculationType \in DOMAIN baseTimes
    /\ software \in DOMAIN baseTimes[calculationType]

\* C16: for a (type, software) pair without timing data estimate returns the
\* default estimate: its confidence is 'low', its minutes are the entry of the
\* default table for (type, tier), or 60 without one, and the whole estimate is
\* the one for a single atom, STO-3G, B3LYP and a software no table knows.
C16_DefaultEstimateWithoutTimingData ==
    ( /\ TimeEstimated
      /\ ~hasTimingData(timeCall.params.calculationType, timeCall.params.software) ) =>
        LET p == timeCall.params
        IN  /\ timeCall.result # Thrown
            /\ timeCall.result.confidence = "low"
            /\ timeCall.result.minutes =
                 IF /\ p.calculationType \in DOMAIN defaultTimes
                    /\ p.precisionLevel \in DOMAIN defaultTimes[p.calculationType]
                 THEN defaultTimes[p.calculationType][p.precisionLevel]
                 ELSE 60
            /\ timeCall.result =
                 TimeEstimator_estimate([ p EXCEPT !.moleculeSize = atoms(1),
                                                   !.basisSet = "STO-3G",
                                                   !.functional = "B3LYP",
                                                   !.software = "gaussian" ])

\* xtb has no timing data for absorption spectra: five hours at full precision,
\* also for 51 atoms.
C16_Witness ==
    /\ TimeEstimated
    /\ timeCall.params.calculationType = "absorption_spectrum"
    /\ timeCall.params.software = "xtb"
    /\ timeCall.params.precisionLevel = "full"
    /\ timeCall.params.moleculeSize = atoms(51)
    /\ timeCall.result.minutes = 300
    /\ timeCall.result.formatted = "5 hours"

\* The benchmark table of AccuracyEstimator has an entry for the method.
hasAccuracyData(calculationType, functional, basisSet) ==
    /\ calculationType \in DOMAIN accuracyBenchmarks
    /\ (functional \o "/" \o basisSet) \in DOMAIN accuracyBenchmarks[calculationType]

\* The mean error the specification's fallback chain gives.
claimedMeanError(calculationType, functional, basisSet) ==
    IF hasAccuracyData(calculationType, functional, basisSet)
    THEN accuracyBenchmarks[calculationType][functional \o "/" \o basisSet].meanError
    ELSE IF calculationType \in DOMAIN defaultAccuracyCoefficients
    THEN LET quality == IF basisSet \in DOMAIN qualityMap THEN qualityMap[basisSet] ELSE 50
         IN  (thousandths(defaultAccuracyCoefficients[calculationType].meanError)
              * (150 - quality)) \div 100
    ELSE thousandths(100)

\* C17: the base accuracy is the benchmark entry of (type, functional/basis
\* set) when there is one, else coefficient * (1.5 - quality) with quality 0.5
\* for a basis set off the table, else 0.1 a.u. for a type without coefficient;
\* the estimate is returned for each of the three tiers, and its
\* benchmarkData.available tells whether the entry exists.
C17_BaseAccuracyFallbackChain ==
    AccuracyEstimated =>
        LET p == accuracyCall.params
        IN  /\ accuracyCall.baseAccuracy.meanError =
                 claimedMeanError(p.calculationType, p.functional, p.basisSet)
            /\ ( /\ ~hasAccuracyData(p.calculationType, p.functional, p.basisSet)
                 /\ p.calculationType \notin DOMAIN defaultAccuracyCoefficients ) =>
                    accuracyCall.baseAccuracy.unit = "a.u."
            /\ p.precisionLevel \in PrecisionLevelSet =>
                 /\ accuracyCall.result # Thrown
                 /\ accuracyCall.result.benchmarkData.available =
                      hasAccuracyData(p.calculationType, p.functional, p.basisSet)

\* A basis set off the quality table, for a type with a coefficient: the
\* synthetic baseline 0.5 * (1.5 - 0.5).
C17_Witness ==
    /\ AccuracyEstimated
    /\ accuracyCall.params.calculationType = "homo_lumo"
    /\ accuracyCall.params.basisSet = "6-31G*"
    /\ accuracyCall.params.precisionLevel = "half"
    /\ accuracyCall.baseAccuracy.meanError = thousandths(500)
    /\ ~accuracyCall.result.benchmarkData.available

claimedLevel(input) ==
    LET choice == trim(toLowerCase(input))
        tiers == { t \in PrecisionLevelSet :
                     choice \in { ToString(precisionLevels[t].priority),
                                  "run " \o t, t } }
    IN  IF tiers = { } THEN Null ELSE CHOOSE t \in tiers : TRUE

\* C19: the number of a tier, its name and "run " with its name, in any case
\* and with white space around, select that tier; every other line selects
\* none, and no line selects two tiers.
C19_ChoiceSelectsItsTier ==
    /\ \A c \in AcceptedChoices :
          Cardinality({ t \in PrecisionLevelSet :
                          c \in { ToString(precisionLevels[t].priority), "run " \o t, t } }) = 1
    /\ routed = "precisionChoice" => selectedLevel = claimedLevel(cliInput)

\* "RUN LOW" with white space on both sides has selected low.
C19_Witness ==
    /\ routed = "precisionChoice"
    /\ cliInput = " RUN LOW \t"
    /\ selectedLevel = "low"

\* C20: no operation throws: for the type, the molecule and the theory level
\* of a plan call, plan, recommendTheoryLevel, calculatePrecisionOptions and
\* the two estimators return a result for every tier, software and basis set.
C20_NoOperationThrows ==
    pc = "planned" =>
        /\ executionResult # Thrown
        /\ recommendTheoryLevel(researchResult.calculationType, moleculeInfo) # Thrown
        /\ \A level \in PrecisionLevelSet, software \in SoftwareInputs, basisSet \in BasisSets :
              /\ TimeEstimator_estimate(
                    [ calculationType |-> researchResult.calculationType,
                      precisionLevel  |-> level,
                      moleculeSize    |-> atoms(51),
                      basisSet        |-> basisSet,
                      functional      |-> researchResult.theoryLevel.functional,
                      software        |-> software ]) # Thrown
              /\ AccuracyEstimator_estimate(
                    [ calculationType |-> researchResult.calculationType,
                      precisionLevel  |-> level,
                      basisSet        |-> basisSet,
                      functional      |-> researchResult.theoryLevel.functional ]) # Thrown

\* ------------------------------------- properties of the overall recommendation

\* A client's getOverallRecommendation call has returned.
Recommended == pc = "recommended"

\* The overall score of the option of a tier.
overallScoreOf(level) ==
    LET i == CHOOSE i \in 1..Len(precisionOptions) : precisionOptions[i].level = level
    IN  precisionOptions[i].costBenefit.overallScore

\* C21: the recommended tier is one of the options and its overallScore is not
\* below the overallScore of any option; every overallScore is the integer
\* nearest to the mean of the three sub-scores and lies in 0..10.
C21_RecommendedHasHighestOverallScore ==
    Recommended =>
        /\ recommendation # Thrown
        /\ \E i \in 1..Len(precisionOptions) :
              precisionOptions[i].level = recommendation.recommended
        /\ \A j \in 1..Len(precisionOptions) :
              /\ overallScoreOf(recommendation.recommended)
                    >= precisionOptions[j].costBenefit.overallScore
              /\ precisionOptions[j].costBenefit.overallScore \in 0..10
              /\ LET c == precisionOptions[j].costBenefit
                     sum == c.accuracyScore + c.speedScore + c.efficiencyScore
                 IN  (3 * c.overallScore - sum) \in { -1, 0, 1 }

\* Full precision takes twelve hours or more and scores 5; half is recommended
\* with its 8.
C21_Witness ==
    /\ Recommended
    /\ overallScoreOf("full") = 5
    /\ overallScoreOf("half") = 8
    /\ overallScoreOf("low") = 7
    /\ recommendation.recommended = "half"

\* ------------------------------------------------- properties of formatDuration

\* A client's formatDuration call has returned.
Formatted == pc = "formatted"

endsWith(text, suffix) ==
    /\ Len(text) >= Len(suffix)
    /\ SubSeq(text, Len(text) - Len(suffix) + 1, Len(text)) = suffix

\* The unit a rendered duration is in.
unitOf(text) ==
    IF endsWith(text, " seconds") THEN "seconds"
    ELSE IF endsWith(text, " minutes") THEN "minutes"
    ELSE IF includes(text, " day") /\ endsWith(text, "h") THEN "days"
    ELSE IF endsWith(text, " hour") \/ endsWith(text, " hours")
            \/ (includes(text, "h ") /\ endsWith(text, "m")) THEN "hours"
    ELSE "none"

\* C22: formatDuration renders a duration below 1 minute in seconds, one from
\* 1 to below 60 minutes in minutes, one from 60 to below 1440 minutes in
\* hours, and one of 1440 minutes or more in days.
C22_UnitByThresholds ==
    Formatted =>
        unitOf(timeCall.result.formatted) =
            IF timeCall.params.minutes < minutesOf(1) THEN "seconds"
            ELSE IF timeCall.params.minutes < minutesOf(60) THEN "minutes"
            ELSE IF timeCall.params.minutes < minutesOf(1440) THEN "hours"
            ELSE "days"

\* Exactly one day is rendered in days.
C22_Witness ==
    /\ Formatted
    /\ timeCall.params.minutes = minutesOf(1440)
    /\ timeCall.result.formatted = "1 day 0h"

\* ----------------------------------------------------- properties of bottlenecks

\* The estimate carries a bottleneck of the type.
hasBottleneck(type) ==
    \E i \in 1..Len(timeCall.result.bottlenecks) : timeCall.result.bottlenecks[i] = type

\* What triggers each bottleneck, by the parameters and the estimated total.
triggers(type) ==
    LET p == timeCall.params
    IN  CASE type = "CPU" -> timeCall.result.hours > minutesOf(120)
          [] type = "Memory" ->
               \/ p.moleculeSize > atoms(50)
               \/ (p.basisSet \in DOMAIN basisSetFactors /\ basisSetFactors[p.basisSet] > 50)
          [] type = "Convergence" ->
               p.calculationType = "absorption_spectrum" /\ p.moleculeSize > atoms(30)

\* C23 as stated: every estimate of TimeEstimator.estimate carries a CPU entry
\* exactly when its total exceeds 120 minutes, a Memory entry exactly when the
\* size exceeds 50 or the basis-set factor exceeds 5, and a Convergence entry
\* exactly when the type is absorption_spectrum and the size exceeds 30.
C23_BottlenecksFollowThresholds ==
    TimeEstimated =>
        \A type \in { "CPU", "Memory", "Convergence" } : hasBottleneck(type) <=> triggers(type)

\* C23, amended: an estimate computed from timing data of the (type, software)
\* pair carries exactly the bottlenecks its thresholds trigger; the default
\* estimate of a pair without timing data carries none.
C23_BottlenecksWithTimingData ==
    TimeEstimated =>
        IF hasTimingData(timeCall.params.calculationType, timeCall.params.software)
        THEN \A type \in { "CPU", "Memory", "Convergence" } :
                hasBottleneck(type) <=> triggers(type)
        ELSE timeCall.result.bottlenecks = << >>

\* An absorption spectrum of 51 atoms with psi4 carries all three entries.
C23_Witness ==
    /\ TimeEstimated
    /\ timeCall.params.calculationType = "absorption_spectrum"
    /\ timeCall.params.software = "psi4"
    /\ timeCall.params.moleculeSize = atoms(51)
    /\ timeCall.result.bottlenecks = << "CPU", "Memory", "Convergence" >>

\* --------------------------------------- properties of ties and alternatives

\* The place of a software in the capability table.
tableOrder(name) == CHOOSE i \in 1..Len(softwareNames) : softwareNames[i] = name

\* C24: software of equal score stand in the ranking in the order of the
\* capability table, psi4, orca, xtb, pyscf, and so the selected software is
\* the earliest of the table among those with the highest score.
C24_TiesKeepTableOrder ==
    (pc = "planned" /\ executionResult # Thrown) =>
        /\ softwareNames = << "psi4", "orca", "xtb", "pyscf" >>
        /\ \A i, j \in 1..Len(softwareOptions) :
              (i < j /\ softwareOptions[i].score = softwareOptions[j].score) =>
                 tableOrder(softwareOptions[i].name) < tableOrder(softwareOptions[j].name)
        /\ \A j \in 1..Len(softwareOptions) :
              softwareOptions[j].score = executionResult.selectedSoftware.score =>
                 tableOrder(executionResult.selectedSoftware.name)
                    <= tableOrder(softwareOptions[j].name)

\* psi4 and pyscf have the same score, above the others; psi4 is selected.
C24_Witness ==
    /\ pc = "planned"
    /\ executionResult # Thrown
    /\ softwareOptions[1].name = "psi4"
    /\ softwareOptions[2].name = "pyscf"
    /\ softwareOptions[1].score = softwareOptions[2].score
    /\ softwareOptions[2].score > softwareOptions[3].score
    /\ executionResult.selectedSoftware.name = "psi4"

\* C25: for a type of the table and every molecule size, plan returns two
\* alternatives that support the type and have a score above 0; at most one
\* software does not support the type, and every software that does scores
\* above 0.
C25_AlternativesSupportedAndPositive ==
    (pc = "planned" /\ executionResult # Thrown
       /\ researchResult.calculationType \in CalculationTypeSet) =>
        /\ Len(executionResult.alternativeSoftware) = 2
        /\ Cardinality({ name \in SoftwareSet :
                           ~supports(name, researchResult.calculationType) }) <= 1
        /\ \A name \in SoftwareSet :
              supports(name, researchResult.calculationType) =>
                 softwareOptions[rankOf(name)].score > 0
        /\ \A i \in 1..Len(executionResult.alternativeSoftware) :
              LET alternative == executionResult.alternativeSoftware[i]
              IN  /\ alternative.score > 0
                  /\ softwareCapabilities[alternative.name]
                        .calculationTypes[researchResult.calculationType].supported

\* xtb does not support absorption spectra and is ranked last with 0, behind
\* the two alternatives, for a molecule above every size ceiling.
C25_Witness ==
    /\ pc = "planned"
    /\ researchResult.calculationType = "absorption_spectrum"
    /\ moleculeInfo.kind = "record"
    /\ \A name \in SoftwareSet : moleculeInfo.estimatedSize > softwareCapabilities[name].maxAtoms
    /\ softwareOptions[4].name = "xtb"
    /\ softwareOptions[4].score = 0
    /\ executionResult.alternativeSoftware = SubSeq(softwareOptions, 2, 3)
    /\ executionResult.alternativeSoftware[2].score > 0

\* ------------------------------------- properties of the rendered components

digitOf ==
    "0" :> 0 @@ "1" :> 1 @@ "2" :> 2 @@ "3" :> 3 @@ "4" :> 4 @@
    "5" :> 5 @@ "6" :> 6 @@ "7" :> 7 @@ "8" :> 8 @@ "9" :> 9

\* The number written in text from position i on, after the digits read so far.
RECURSIVE numberFrom(_, _, _)
numberFrom(text, i, read) ==
    IF i > Len(text) \/ SubSeq(text, i, i) \notin DOMAIN digitOf THEN read
    ELSE numberFrom(text, i + 1, 10 * read + digitOf[SubSeq(text, i, i)])

\* The first position behind an occurrence of part in text.
behind(text, part) ==
    LET starts == { i \in 1..(Len(text) - Len(part) + 1) :
                      SubSeq(text, i, i + Len(part) - 1) = part }
    IN  (CHOOSE i \in starts : \A j \in starts : i <= j) + Len(part)

\* C26: a rendered duration has no component out of range: fewer than 60
\* seconds, fewer than 60 minutes, and in the form 'Hh Mm' 1 <= H < 24 and
\* 0 < M < 60.
C26_ComponentsInRange ==
    Formatted =>
        LET text == timeCall.result.formatted
        IN  /\ unitOf(text) \in { "seconds", "minutes" } => numberFrom(text, 1, 0) < 60
            /\ (unitOf(text) = "hours" /\ endsWith(text, "m")) =>
                  /\ numberFrom(text, 1, 0) >= 1
                  /\ numberFrom(text, 1, 0) < 24
                  /\ numberFrom(text, behind(text, "h "), 0) > 0
                  /\ numberFrom(text, behind(text, "h "), 0) < 60

\* The adjusted mean error of the option of one tier: the base error of the
\* option's basis set, times the tier's multiplier, times the functional's.
adjustedErrorOf(level) ==
    LET option == CHOOSE o \in { precisionOptions[i] : i \in 1..3 } : o.level = level
        calculationType == precisionCall.calculationType
        functional == precisionCall.theoryLevel.functional
    IN  calculateExpectedError(
            getBaseAccuracy(calculationType, functional, option.basisSet),
            precisionAccuracy[level],
            IF functional \in DOMAIN functionalCorrections
            THEN functionalCorrections[functional]
            ELSE [ generalAccuracy |-> 100 ],
            calculationType)

\* C27: within one result of calculatePrecisionOptions the adjusted mean error
\* of full is at most that of half, which is at most that of low, and each
\* option shows its adjusted error as its expectedError; this holds for every
\* calculation type, size category and functional, also where a base error is
\* the synthetic fallback.
C27_ErrorGrowsFromFullToLow ==
    OptionsReturned =>
        /\ \A i \in 1..3 :
               precisionOptions[i].expectedError =
                   formatError(adjustedErrorOf(precisionOptions[i].level),
                               precisionCall.calculationType)
        /\ adjustedErrorOf("full").mean <= adjustedErrorOf("half").mean
        /\ adjustedErrorOf("half").mean <= adjustedErrorOf("low").mean

\* A result where low's base error is a synthetic fallback and half's is a
\* benchmark, with three different adjusted errors.
C27_Witness ==
    /\ OptionsReturned
    /\ ~ hasBenchmark(precisionCall.calculationType, precisionCall.theoryLevel.functional,
                      precisionOptions[3].basisSet)
    /\ hasBenchmark(precisionCall.calculationType, precisionCall.theoryLevel.functional,
                    precisionOptions[2].basisSet)
    /\ adjustedErrorOf("full").mean < adjustedErrorOf("half").mean
    /\ adjustedErrorOf("half").mean < adjustedErrorOf("low").mean

HandlesWhileAwaiting ==
    /\ cliPc = "typed"
    /\ cliPc' = "handled"
    /\ awaitingPrecisionChoice
    /\ trim(cliInput) # ""

\* C29: while awaitingPrecisionChoice is true every line handleUserInput does
\* not drop as empty, the special commands help, clear, status and exit
\* included, goes to handlePrecisionChoice and neither to a command handler
\* nor to the agent; and awaitingPrecisionChoice turns false only on a line
\* that is one of the nine accepted phrasings.
C29_AwaitingRoutesToPrecisionChoice ==
    [][ /\ HandlesWhileAwaiting => routed' = "precisionChoice"
        /\ (awaitingPrecisionChoice /\ ~ awaitingPrecisionChoice') =>
              /\ cliPc = "typed"
              /\ routed' = "precisionChoice"
              /\ claimedLevel(cliInput) # Null ]_vars

\* A special command typed while a choice is awaited went to
\* handlePrecisionChoice, which refused it.
C29_Witness ==
    /\ cliPc = "handled"
    /\ awaitingPrecisionChoice
    /\ routed = "precisionChoice"
    /\ toLowerCase(cliInput) \in { "status", "exit" }
    /\ selectedLevel = Null

\* C30: handlePrecisionChoice clears awaitingPrecisionChoice exactly when the
\* line is an accepted phrasing. A refused line leaves awaitingPrecisionChoice
\* true and currentPlanData and conversationHistory as they were; an accepted
\* one sets awaitingPrecisionChoice to false and currentPlanData to null,
\* also when the generation fails, and appends one user and one assistant
\* entry when the generation goes through and nothing when it fails.
C30_ChoiceClearsStateOnlyWhenAccepted ==
    [][ \A generated \in BOOLEAN :
          (HandlesWhileAwaiting /\ HandleUserInput("options", generated)) =>
              /\ (~ awaitingPrecisionChoice') <=> (claimedLevel(cliInput) # Null)
              /\ claimedLevel(cliInput) = Null =>
                    /\ awaitingPrecisionChoice'
                    /\ currentPlanData' = currentPlanData
                    /\ conversationHistory' = conversationHistory
              /\ claimedLevel(cliInput) # Null =>
                    /\ ~ awaitingPrecisionChoice'
                    /\ currentPlanData' = NoPlanData
                    /\ conversationHistory' =
                          IF generated
                          THEN conversationHistory \o << "user", "assistant" >>
                          ELSE conversationHistory ]_vars

\* An accepted choice whose generation failed: the plan data are gone and the
\* history has no entry of the choice.
C30_Witness ==
    /\ cliPc = "handled"
    /\ routed = "precisionChoice"
    /\ selectedLevel = "half"
    /\ ~ awaitingPrecisionChoice
    /\ currentPlanData = NoPlanData
    /\ conversationHistory = << "user", "assistant" >>

====
